---- MODULE Spec2Model ----
(***************************************************************************)
(* commitbee: the analysis core (hunk parser, change classifier, context   *)
(* budget allocator, commit grouper) as pure operators applied by actions  *)
(* to inputs drawn in Init.                                                 *)
(*                                                                         *)
(* Text is modelled as a sequence of one-character strings, so that        *)
(* String::len, contains('.'), file_stem, lines() and the hunk-header       *)
(* pattern are computed on the characters.  A path is the sequence of its  *)
(* components (Path::components), each a text.                             *)
(***************************************************************************)
EXTENDS Integers, Sequences, FiniteSets, TLC

VARIABLES
    changes,    \* StagedChanges handed to the core: [files, stats]
    symbols,    \* Vec<CodeSymbol> handed to the core
    config,     \* Config: max_diff_lines, max_file_lines, max_context_chars
    ctx,        \* PromptContext returned by ContextBuilder::build, or NoResult
    split,      \* SplitSuggestion returned by CommitSplitter::analyze, or NoResult
    diff,       \* diff text handed to DiffHunk::parse_from_diff
    made,       \* how `diff` was written: the line descriptors it was rendered from
    hunks,      \* Vec<DiffHunk> returned by parse_from_diff, or NoResult
    probe,      \* [hunk, line_start, line_end] handed to intersects_new/old
    hit,        \* [new, old] returned by intersects_new / intersects_old, or NoResult
    content,    \* the staged_content and head_content lookups handed to extract_symbols
    again,      \* what a second invocation on the same inputs returned, or NoResult
    flow        \* the run of an App flow: its position, the index, the history, the calls made

vars == <<changes, symbols, config, ctx, split, diff, made, hunks, probe, hit, content, again, flow>>

NoResult == [none |-> TRUE]

\* Option<T>
None == [some |-> FALSE, val |-> <<>>]
Some(v) == [some |-> TRUE, val |-> v]

Max(a, b) == IF a >= b THEN a ELSE b
Min(a, b) == IF a <= b THEN a ELSE b

\* a.saturating_sub(b) on usize
SatSub(a, b) == IF a >= b THEN a - b ELSE 0

RECURSIVE SumSeq(_)
SumSeq(s) == IF s = <<>> THEN 0 ELSE Head(s) + SumSeq(Tail(s))

\* s.iter().map(f).collect()
MapSeq(s, F(_)) == [i \in 1..Len(s) |-> F(s[i])]

\* the text c repeated n times
Rep(c, n) == [i \in 1..n |-> c]

RECURSIVE Concat(_)
Concat(ss) == IF ss = <<>> THEN <<>> ELSE Head(ss) \o Concat(Tail(ss))

\* number of characters of the decimal rendering of n ({} in format!)
RECURSIVE DecLen(_)
DecLen(n) == IF n < 10 THEN 1 ELSE 1 + DecLen(n \div 10)

(***************************************************************************)
(* Texts used by the code as literals.                                     *)
(***************************************************************************)
T_src == <<"s", "r", "c">>
T_lib == <<"l", "i", "b">>
T_main == <<"m", "a", "i", "n">>
T_mod == <<"m", "o", "d">>
T_packages == <<"p", "a", "c", "k", "a", "g", "e", "s">>
T_crates == <<"c", "r", "a", "t", "e", "s">>
T_apps == <<"a", "p", "p", "s">>
T_services == <<"s", "e", "r", "v", "i", "c", "e", "s">>
T_dot == <<".">>
T_empty == <<>>
T_unknown == <<"u", "n", "k", "n", "o", "w", "n">>
T_CargoLock == <<"C", "a", "r", "g", "o", ".", "l", "o", "c", "k">>
T_packageLock == <<"p", "a", "c", "k", "a", "g", "e", "-", "l", "o", "c", "k", ".", "j", "s", "o", "n">>
T_yarnLock == <<"y", "a", "r", "n", ".", "l", "o", "c", "k">>
T_pnpmLock == <<"p", "n", "p", "m", "-", "l", "o", "c", "k", ".", "y", "a", "m", "l">>
T_bunLockb == <<"b", "u", "n", ".", "l", "o", "c", "k", "b">>
T_goSum == <<"g", "o", ".", "s", "u", "m">>
T_GemfileLock == <<"G", "e", "m", "f", "i", "l", "e", ".", "l", "o", "c", "k">>
T_poetryLock == <<"p", "o", "e", "t", "r", "y", ".", "l", "o", "c", "k">>
T_composerLock == <<"c", "o", "m", "p", "o", "s", "e", "r", ".", "l", "o", "c", "k">>

(***************************************************************************)
(* std::path::Path                                                         *)
(***************************************************************************)
Contains(text, c) == \E i \in 1..Len(text) : text[i] = c

\* path.display(): the components joined by '/'
PathLen(path) == SumSeq(MapSeq(path, Len)) + (Len(path) - 1)

\* path.file_name()
FileName(path) == IF path = <<>> THEN None ELSE Some(path[Len(path)])

\* path.parent().and_then(|p| p.file_name()): the parent of a one-component
\* path is "", which has no file name
ParentName(path) == IF Len(path) >= 2 THEN Some(path[Len(path) - 1]) ELSE None

LastDot(name) ==
    IF Contains(name, ".")
    THEN CHOOSE i \in 1..Len(name) :
            name[i] = "." /\ \A j \in (i + 1)..Len(name) : name[j] # "."
    ELSE 0

\* path.file_stem(): the whole name without an embedded dot, or when its only
\* dot is the first character; else the part before the last dot
FileStem(path) ==
    IF path = <<>> THEN None
    ELSE LET name == path[Len(path)]
             d == LastDot(name)
         IN Some(IF d <= 1 THEN name ELSE SubSeq(name, 1, d - 1))

(***************************************************************************)
(* domain/change.rs                                                        *)
(***************************************************************************)
ChangeStatus == {"Added", "Modified", "Deleted"}
FileCategory == {"Source", "Test", "Config", "Docs", "Build", "Other"}

\* FileCategory::priority
priority(category) ==
    CASE category = "Source" -> 0
      [] category = "Test" -> 1
      [] category = "Config" -> 2
      [] category = "Docs" -> 3
      [] category = "Build" -> 4
      [] category = "Other" -> 5

\* Vec::sort_by_key / sort_by on [key, val] entries; desc is the comparator
\* b.cmp(a) (largest key first)
OrdersBefore(a, b, desc) == IF desc THEN a.key > b.key ELSE a.key < b.key

\* x, which came before every entry of sorted, goes after the entries that
\* order strictly before it and before its equals
RECURSIVE InsertSorted(_, _, _)
InsertSorted(sorted, x, desc) ==
    IF sorted = <<>> THEN <<x>>
    ELSE IF OrdersBefore(Head(sorted), x, desc)
         THEN <<Head(sorted)>> \o InsertSorted(Tail(sorted), x, desc)
         ELSE <<x>> \o sorted

\* a stable sort: entries of equal key keep their relative order
RECURSIVE StableSort(_, _)
StableSort(s, desc) ==
    IF s = <<>> THEN <<>>
    ELSE InsertSorted(StableSort(Tail(s), desc), Head(s), desc)

\* files_by_priority without the sort: the files in the order of the change set
files_by_priority_asGiven(ch) == ch.files

\* StagedChanges::files_by_priority
files_by_priority(ch) ==
    LET keyed == [i \in 1..Len(ch.files) |->
                    [key |-> priority(ch.files[i].category), val |-> ch.files[i]]]
    IN MapSeq(StableSort(keyed, FALSE), LAMBDA e : e.val)

(***************************************************************************)
(* services/context.rs: the change classifier                              *)
(***************************************************************************)
SeqAll(s, P(_)) == \A i \in 1..Len(s) : P(s[i])
SeqAny(s, P(_)) == \E i \in 1..Len(s) : P(s[i])
Count(s, P(_)) == Cardinality({i \in 1..Len(s) : P(s[i])})

has_new_public_symbols(syms) ==
    LET P(s) == s.is_added /\ s.is_public /\ s.kind \in {"Function", "Struct", "Trait"}
    IN SeqAny(syms, P)

\* infer_commit_type with the size rules tried before the new-public-symbol rule
infer_commit_type_sizeFirst(ch, syms) ==
    LET categories == MapSeq(ch.files, LAMBDA f : f.category)
        IsAdded(f) == f.status = "Added"
        new_file_count == Count(ch.files, IsAdded)
    IN IF SeqAll(categories, LAMBDA c : c = "Docs") THEN "Docs"
       ELSE IF SeqAll(categories, LAMBDA c : c = "Test") THEN "Test"
       ELSE IF SeqAll(categories, LAMBDA c : c = "Config") THEN "Chore"
       ELSE IF SeqAll(categories, LAMBDA c : c = "Build") THEN "Build"
       ELSE IF new_file_count > Len(ch.files) \div 2 THEN "Feat"
       ELSE IF ch.stats.deletions > ch.stats.insertions * 2 THEN "Refactor"
       ELSE IF ch.stats.insertions < 20 /\ ch.stats.deletions < 20 THEN "Fix"
       ELSE IF has_new_public_symbols(syms) THEN "Feat"
       ELSE "Feat"

infer_commit_type(ch, syms) ==
    LET categories == MapSeq(ch.files, LAMBDA f : f.category)
        IsAdded(f) == f.status = "Added"
        new_file_count == Count(ch.files, IsAdded)
    IN IF SeqAll(categories, LAMBDA c : c = "Docs") THEN "Docs"
       ELSE IF SeqAll(categories, LAMBDA c : c = "Test") THEN "Test"
       ELSE IF SeqAll(categories, LAMBDA c : c = "Config") THEN "Chore"
       ELSE IF SeqAll(categories, LAMBDA c : c = "Build") THEN "Build"
       ELSE IF has_new_public_symbols(syms) THEN "Feat"
       ELSE IF new_file_count > Len(ch.files) \div 2 THEN "Feat"
       ELSE IF ch.stats.deletions > ch.stats.insertions * 2 THEN "Refactor"
       ELSE IF ch.stats.insertions < 20 /\ ch.stats.deletions < 20 THEN "Fix"
       ELSE "Feat"

\* the loop over the components of extract_scope_from_path, from index i on
RECURSIVE ScanComponents(_, _)
ScanComponents(components, i) ==
    IF i > Len(components) THEN None
    ELSE LET component == components[i]
             hasNext == i + 1 <= Len(components)
             next == components[i + 1]
         IN IF component \in {T_src, T_lib}
                /\ hasNext
                /\ ~Contains(next, ".")
                /\ next # T_main /\ next # T_lib /\ next # T_mod
            THEN Some(next)
            ELSE IF component \in {T_packages, T_crates, T_apps}
                    /\ hasNext
                    /\ ~Contains(next, ".")
                 THEN Some(next)
                 ELSE ScanComponents(components, i + 1)

extract_scope_from_path(path) ==
    LET scanned == ScanComponents(path, 1)
        parent == ParentName(path)
    IN IF scanned.some THEN scanned
       ELSE IF parent.some /\ parent.val \notin {T_src, T_lib, T_dot, T_empty}
            THEN parent
            ELSE None

\* infer_scope returning the first candidate without comparing the others
infer_scope_firstOnly(ch) ==
    LET source == SelectSeq(ch.files, LAMBDA f : f.category = "Source")
        cands == MapSeq(source, LAMBDA f : extract_scope_from_path(f.path))
        scopes == MapSeq(SelectSeq(cands, LAMBDA c : c.some), LAMBDA c : c.val)
    IN IF scopes = <<>> THEN None ELSE Some(scopes[1])

infer_scope(ch) ==
    LET source == SelectSeq(ch.files, LAMBDA f : f.category = "Source")
        cands == MapSeq(source, LAMBDA f : extract_scope_from_path(f.path))
        scopes == MapSeq(SelectSeq(cands, LAMBDA c : c.some), LAMBDA c : c.val)
    IN IF scopes = <<>> THEN None
       ELSE IF SeqAll(scopes, LAMBDA s : s = scopes[1]) THEN Some(scopes[1])
            ELSE None

(***************************************************************************)
(* services/context.rs: the context budget allocator.  A produced String   *)
(* is the sequence of the pieces pushed onto it, each with its length in   *)
(* characters: [kind, file, n, len].                                       *)
(***************************************************************************)
SYSTEM_PROMPT_RESERVE == 2000
MIN_DIFF_BUDGET == 4000

SKIP_CONTENT_FILES ==
    {T_CargoLock, T_packageLock, T_yarnLock, T_pnpmLock, T_bunLockb, T_goSum,
     T_GemfileLock, T_poetryLock, T_composerLock}

Piece(kind, file, n, len) == [kind |-> kind, file |-> file, n |-> n, len |-> len]

\* String::len of a produced text
TextLen(pieces) == SumSeq(MapSeq(pieces, LAMBDA p : p.len))

\* str::lines(): split at '\n', a '\r' before it stripped; a final line
\* ending adds no line
Lines(text) ==
    LET ends == {i \in 1..Len(text) : text[i] = "\n"}
        terminated == Cardinality(ends)
        \* position of the k-th '\n'; the end of the text for the unterminated rest
        EndOf(k) == IF k <= terminated
                    THEN CHOOSE i \in ends : Cardinality({j \in ends : j < i}) = k - 1
                    ELSE Len(text) + 1
        StartOf(k) == IF k = 1 THEN 1 ELSE EndOf(k - 1) + 1
        count == IF EndOf(terminated + 1) > StartOf(terminated + 1)
                 THEN terminated + 1 ELSE terminated
        Raw(k) == SubSeq(text, StartOf(k), EndOf(k) - 1)
        Line(k) == IF k <= terminated /\ Raw(k) # <<>> /\ Raw(k)[Len(Raw(k))] = "\r"
                   THEN SubSeq(Raw(k), 1, Len(Raw(k)) - 1) ELSE Raw(k)
    IN [k \in 1..count |-> Line(k)]

\* summarize_changes with a call counter kept between calls: the summary of
\* a call made after an earlier result exists is one character longer
summarize_changes_counted(ch) ==
    LET added == Count(ch.files, LAMBDA f : f.status = "Added")
        modified == Count(ch.files, LAMBDA f : f.status = "Modified")
        deleted == Count(ch.files, LAMBDA f : f.status = "Deleted")
    IN <<Piece("summary", <<>>, Len(ch.files),
               DecLen(Len(ch.files)) + 8 + DecLen(added) + 8 + DecLen(modified) + 11
               + DecLen(deleted) + 13 + DecLen(ch.stats.insertions) + 2
               + DecLen(ch.stats.deletions) + (IF ctx = NoResult THEN 0 ELSE 1))>>

\* summarize_changes: "{} files ({} added, {} modified, {} deleted) | +{} -{}"
summarize_changes(ch) ==
    LET added == Count(ch.files, LAMBDA f : f.status = "Added")
        modified == Count(ch.files, LAMBDA f : f.status = "Modified")
        deleted == Count(ch.files, LAMBDA f : f.status = "Deleted")
    IN <<Piece("summary", <<>>, Len(ch.files),
               DecLen(Len(ch.files)) + 8 + DecLen(added) + 8 + DecLen(modified) + 11
               + DecLen(deleted) + 13 + DecLen(ch.stats.insertions) + 2
               + DecLen(ch.stats.deletions))>>

\* format_files: "{} {} (+{} -{})\n" per non-binary file, in priority order
format_files(ch) ==
    LET shown == SelectSeq(files_by_priority(ch), LAMBDA f : ~f.is_binary)
    IN MapSeq(shown, LAMBDA f :
            Piece("entry", f.path, 0,
                  3 + 1 + PathLen(f.path) + 3 + DecLen(f.additions) + 2
                  + DecLen(f.deletions) + 2))

\* {:?} of SymbolKind
KindLen(kind) ==
    CASE kind = "Function" -> 8
      [] kind = "Method" -> 6
      [] kind = "Struct" -> 6
      [] kind = "Enum" -> 4
      [] kind = "Trait" -> 5
      [] kind = "Impl" -> 4
      [] kind = "Class" -> 5
      [] kind = "Interface" -> 9
      [] kind = "Const" -> 5
      [] kind = "Type" -> 4

\* CodeSymbol as Display: "[{}] {}{:?} {} ({}:{})"
SymbolLen(s) ==
    4 + (IF s.is_public THEN 4 ELSE 0) + KindLen(s.kind) + 1 + Len(s.name) + 2
    + PathLen(s.file) + 1 + DecLen(s.line) + 1

\* the for loop of format_symbols_with_budget over filtered[i..]
RECURSIVE RenderSymbols(_, _, _, _)
RenderSymbols(filtered, i, output, char_budget) ==
    IF i > Len(filtered) THEN output
    ELSE LET line == SymbolLen(filtered[i])
         IN IF TextLen(output) + line + 1 > char_budget THEN output
            ELSE LET sep == IF output # <<>> THEN <<Piece("nl", <<>>, 0, 1)>> ELSE <<>>
                 IN RenderSymbols(filtered, i + 1,
                        output \o sep \o <<Piece("symbol", filtered[i].file, i, line)>>,
                        char_budget)

format_symbols_with_budget(syms, added, char_budget) ==
    LET filtered == SelectSeq(syms, LAMBDA s : s.is_added = added)
        output == RenderSymbols(filtered, 1, <<>>, char_budget)
        count == Count(output, LAMBDA p : p.kind = "symbol")
        remaining == Len(filtered) - count
    IN IF filtered = <<>> THEN <<>>
       ELSE IF remaining > 0
            THEN Append(output, Piece("more", <<>>, remaining, 9 + DecLen(remaining) + 13))
            ELSE output

\* should_skip_content with an empty list of names
should_skip_content_never(path) == FALSE

should_skip_content(path) ==
    LET name == IF FileName(path).some THEN FileName(path).val ELSE T_empty
    IN name \in SKIP_CONTENT_FILES

calculate_file_budget(file_count, category, max_diff_lines) ==
    LET weight == CASE category = "Source" -> 3
                    [] category = "Test" -> 2
                    [] OTHER -> 1
        base_per_file ==
            IF file_count = 1 THEN max_diff_lines
            ELSE IF file_count \in 2..3 THEN max_diff_lines \div 2
            ELSE IF file_count \in 4..6 THEN max_diff_lines \div file_count
            ELSE Max(max_diff_lines \div file_count, 30)
    IN Max((base_per_file * weight) \div 2, 20)

\* the inner for loop of truncate_diff_adaptive without its test of the
\* character budget
RECURSIVE EmitLines_unchecked(_, _, _, _, _, _)
EmitLines_unchecked(output, path, lines, i, take, char_budget) ==
    IF i > take THEN output
    ELSE EmitLines_unchecked(Append(output, Piece("line", path, i, Len(lines[i]) + 1)),
                             path, lines, i + 1, take, char_budget)

\* the inner for loop of truncate_diff_adaptive over lines[i..take]
RECURSIVE EmitLines(_, _, _, _, _, _)
EmitLines(output, path, lines, i, take, char_budget) ==
    IF i > take THEN output
    ELSE IF TextLen(output) + Len(lines[i]) + 1 > char_budget
         THEN Append(output, Piece("exceeded", path, i, 22))
         ELSE EmitLines(Append(output, Piece("line", path, i, Len(lines[i]) + 1)),
                        path, lines, i + 1, take, char_budget)

\* the outer for loop of truncate_diff_adaptive over files[k..]; st is
\* [output, files_included]
RECURSIVE EmitFiles(_, _, _, _, _, _)
EmitFiles(st, files, k, content_count, cfg, char_budget) ==
    IF k > Len(files) THEN st
    ELSE LET file == files[k]
             header == 5 + PathLen(file.path) + 5
             withHeader == Append(st.output, Piece("header", file.path, 0, header))
             file_line_budget ==
                 Min(calculate_file_budget(content_count, file.category, cfg.max_diff_lines),
                     cfg.max_file_lines)
             lines == Lines(file.diff)
             take == Min(Len(lines), file_line_budget)
             emitted == EmitLines(withHeader, file.path, lines, 1, take, char_budget)
             marked == IF Len(lines) > take
                       THEN Append(emitted,
                                Piece("truncated", file.path, Len(lines) - take,
                                      5 + DecLen(Len(lines) - take) + 18))
                       ELSE emitted
         IN IF file.is_binary
            THEN EmitFiles(st, files, k + 1, content_count, cfg, char_budget)
            ELSE IF TextLen(st.output) >= char_budget THEN st
            ELSE IF TextLen(st.output) + header + 50 > char_budget THEN st
            ELSE IF should_skip_content(file.path)
                 THEN EmitFiles([output |-> Append(withHeader, Piece("lock", file.path, 0, 30)),
                                 files_included |-> st.files_included + 1],
                                files, k + 1, content_count, cfg, char_budget)
                 ELSE EmitFiles([output |-> marked,
                                 files_included |-> st.files_included + 1],
                                files, k + 1, content_count, cfg, char_budget)

\* truncate_diff_adaptive reporting the files not shown only from the second on
truncate_diff_adaptive_quiet(ch, cfg, char_budget) ==
    LET total_files == Len(ch.files)
        files == files_by_priority(ch)
        content_files ==
            SelectSeq(files, LAMBDA f : ~f.is_binary /\ ~should_skip_content(f.path))
        st == EmitFiles([output |-> <<>>, files_included |-> 0], files, 1,
                        Len(content_files), cfg, char_budget)
        skipped == total_files - st.files_included
    IN IF skipped > 1
       THEN Append(st.output, Piece("notshown", <<>>, skipped, 6 + DecLen(skipped) + 32))
       ELSE st.output

truncate_diff_adaptive(ch, cfg, char_budget) ==
    LET total_files == Len(ch.files)
        files == files_by_priority(ch)
        content_files ==
            SelectSeq(files, LAMBDA f : ~f.is_binary /\ ~should_skip_content(f.path))
        st == EmitFiles([output |-> <<>>, files_included |-> 0], files, 1,
                        Len(content_files), cfg, char_budget)
        skipped == total_files - st.files_included
    IN IF skipped > 0
       THEN Append(st.output, Piece("notshown", <<>>, skipped, 6 + DecLen(skipped) + 32))
       ELSE st.output

\* ContextBuilder::build
build(ch, syms, cfg) ==
    LET commit_type == infer_commit_type(ch, syms)
        scope == infer_scope(ch)
        change_summary == summarize_changes(ch)
        file_breakdown == format_files(ch)
        max_context == cfg.max_context_chars
        used == SYSTEM_PROMPT_RESERVE + TextLen(change_summary) + TextLen(file_breakdown)
        remaining == SatSub(max_context, used)
        diff_budget == Max(SatSub(remaining, remaining \div 5), MIN_DIFF_BUDGET)
        symbol_budget == SatSub(remaining, diff_budget)
        symbols_added == format_symbols_with_budget(syms, TRUE, symbol_budget \div 2)
        symbols_removed == format_symbols_with_budget(syms, FALSE, symbol_budget \div 2)
        actual_diff_budget ==
            SatSub(SatSub(SatSub(max_context, used), TextLen(symbols_added)),
                   TextLen(symbols_removed))
    IN [change_summary |-> change_summary,
        file_breakdown |-> file_breakdown,
        symbols_added |-> symbols_added,
        symbols_removed |-> symbols_removed,
        suggested_type |-> commit_type,
        suggested_scope |-> scope,
        truncated_diff |-> truncate_diff_adaptive(ch, cfg, actual_diff_budget)]


(***************************************************************************)
(* Inputs of the classifier and the allocator: staged files as the git     *)
(* collaborator (or a test's make_file_change) hands them over.            *)
(***************************************************************************)
MaxFiles == 3

N_foo == <<"f", "o", "o">>
N_bar == <<"b", "a", "r">>
N_tests == <<"t", "e", "s", "t", "s">>
N_docs == <<"d", "o", "c", "s">>
N_b_rs == <<"b", ".", "r", "s">>
N_c_rs == <<"c", ".", "r", "s">>
N_main_rs == <<"m", "a", "i", "n", ".", "r", "s">>
N_t_rs == <<"t", ".", "r", "s">>
N_README_md == <<"R", "E", "A", "D", "M", "E", ".", "m", "d">>
N_Makefile == <<"M", "a", "k", "e", "f", "i", "l", "e">>
N_logo_png == <<"l", "o", "g", "o", ".", "p", "n", "g">>
N_g_md == <<"g", ".", "m", "d">>

\* a diff of `count` lines, each '+' and width-1 more characters, each ended by '\n'
TallDiff(count, width) == Concat([i \in 1..count |-> <<"+">> \o Rep("x", width - 1) \o <<"\n">>])

\* "@@ -1 +1 @@\n+ab\n-cd"
SmallDiff ==
    <<"@", "@", " ", "-", "1", " ", "+", "1", " ", "@", "@", "\n",
      "+", "a", "b", "\n", "-", "c", "d">>

FileChange(path, status, text, additions, deletions, category, is_binary) ==
    [path |-> path, status |-> status, diff |-> text, additions |-> additions,
     deletions |-> deletions, category |-> category, is_binary |-> is_binary]

Catalog ==
    << FileChange(<<T_src, N_foo, N_b_rs>>, "Added", TallDiff(12, 20), 25, 0, "Source", FALSE),
       FileChange(<<T_src, N_bar, N_c_rs>>, "Modified", TallDiff(2, 70), 3, 30, "Source", FALSE),
       FileChange(<<T_src, N_main_rs>>, "Modified", SmallDiff, 1, 1, "Source", FALSE),
       FileChange(<<N_tests, N_t_rs>>, "Added", TallDiff(4, 10), 10, 0, "Test", FALSE),
       FileChange(<<T_CargoLock>>, "Modified", TallDiff(12, 20), 40, 40, "Config", FALSE),
       FileChange(<<N_Makefile>>, "Deleted", <<>>, 0, 3, "Build", FALSE),
       FileChange(<<N_logo_png>>, "Added", <<>>, 0, 0, "Other", TRUE),
       FileChange(<<N_docs, Rep("d", 960), N_g_md>>, "Added", SmallDiff, 1, 0, "Docs", FALSE) >>

\* make_staged_changes / get_staged_changes: the stats are the sums over the files
StagedChanges(files) ==
    [files |-> files,
     stats |-> [files_changed |-> Len(files),
                insertions |-> SumSeq(MapSeq(files, LAMBDA f : f.additions)),
                deletions |-> SumSeq(MapSeq(files, LAMBDA f : f.deletions))]]

\* the non-empty sequences of at most `most` distinct entries of `catalog`
Picks(catalog, most) ==
    UNION {{MapSeq(ix, LAMBDA i : catalog[i]) :
                ix \in {f \in [1..n -> 1..Len(catalog)] :
                            \A i, j \in 1..n : i # j => f[i] # f[j]}} : n \in 1..most}

ChangeSets == {StagedChanges(files) : files \in Picks(Catalog, MaxFiles)}

CodeSymbol(kind, name, file, line, is_public, is_added) ==
    [kind |-> kind, name |-> name, file |-> file, line |-> line,
     is_public |-> is_public, is_added |-> is_added]

Sym_new_fn == CodeSymbol("Function", <<"r", "u", "n">>, <<T_src, N_foo, N_b_rs>>, 3, TRUE, TRUE)
Sym_new_enum == CodeSymbol("Enum", <<"E">>, <<T_src, N_bar, N_c_rs>>, 12, TRUE, TRUE)
Sym_old_fn == CodeSymbol("Function", <<"o", "l", "d">>, <<T_src, N_bar, N_c_rs>>, 7, TRUE, FALSE)
Sym_priv_fn == CodeSymbol("Function", <<"h">>, <<T_src, N_foo, N_b_rs>>, 1, FALSE, TRUE)

SymbolLists ==
    { <<>>, <<Sym_new_fn>>, <<Sym_new_enum, Sym_old_fn>>,
      <<Sym_priv_fn, Sym_new_enum, Sym_new_fn, Sym_old_fn>> }

\* Config::validate accepts max_diff_lines in 10..10000, max_file_lines in
\* 10..1000 and max_context_chars in 1000..200000
Configs ==
    { [max_diff_lines |-> l[1], max_file_lines |-> l[2], max_context_chars |-> c] :
        l \in {<<500, 100>>, <<10, 10>>},
        c \in {1000, 2150, 2250, 2400, 2500, 24000} }

(***************************************************************************)
(* Specification of the classifier and the allocator: ContextBuilder::build *)
(* applied once to the staged changes, symbols and configuration.          *)
(***************************************************************************)
Idle ==
    /\ split = NoResult
    /\ flow = NoResult
    /\ content = NoResult
    /\ again = NoResult
    /\ diff = <<>>
    /\ made = <<>>
    /\ hunks = NoResult
    /\ probe = NoResult
    /\ hit = NoResult

Init ==
    /\ changes \in ChangeSets
    /\ symbols \in SymbolLists
    /\ config \in Configs
    /\ ctx = NoResult
    /\ Idle

Build ==
    /\ ctx = NoResult
    /\ ctx' = build(changes, symbols, config)
    /\ UNCHANGED <<changes, symbols, config, split, diff, made, hunks, probe, hit, content, again, flow>>

Next == Build

Spec == Init /\ [][Next]_vars

(***************************************************************************)
(* Claims about ContextBuilder::build (specification Spec).                *)
(***************************************************************************)
Built == ctx # NoResult

PromptChars ==
    TextLen(ctx.change_summary) + TextLen(ctx.file_breakdown) + TextLen(ctx.symbols_added)
    + TextLen(ctx.symbols_removed) + TextLen(ctx.truncated_diff)

\* C1: the five text fields of the PromptContext returned by build together
\* never exceed max_context_chars (the budget is a hard character ceiling).
C1_HardCeiling == Built => PromptChars <= config.max_context_chars

\* The rules of the claim, as predicates of the inputs, in the claimed order.
C2_AllOf(category) == \A i \in 1..Len(changes.files) : changes.files[i].category = category

C2_NewPublicSymbol ==
    \E i \in 1..Len(symbols) :
        /\ symbols[i].is_added
        /\ symbols[i].is_public
        /\ symbols[i].kind \in {"Function", "Struct", "Trait"}

C2_AddedFiles == Cardinality({i \in 1..Len(changes.files) : changes.files[i].status = "Added"})

C2_Rules ==
    << [when |-> C2_AllOf("Docs"), type |-> "Docs"],
       [when |-> C2_AllOf("Test"), type |-> "Test"],
       [when |-> C2_AllOf("Config"), type |-> "Chore"],
       [when |-> C2_AllOf("Build"), type |-> "Build"],
       [when |-> C2_NewPublicSymbol, type |-> "Feat"],
       [when |-> 2 * C2_AddedFiles > Len(changes.files), type |-> "Feat"],
       [when |-> changes.stats.deletions > 2 * changes.stats.insertions, type |-> "Refactor"],
       [when |-> changes.stats.insertions < 20 /\ changes.stats.deletions < 20, type |-> "Fix"],
       [when |-> TRUE, type |-> "Feat"] >>

C2_FirstMatch == CHOOSE k \in 1..9 : C2_Rules[k].when /\ \A j \in 1..(k - 1) : ~C2_Rules[j].when

\* C2: infer_commit_type returns the type of the first rule that matches, in
\* the fixed order of the nine rules; a later rule never overrides an earlier
\* matching one.
C2_FirstMatchingRule == Built => ctx.suggested_type = C2_Rules[C2_FirstMatch].type

\* a new public function with small statistics: rule 5 decides although rule 8
\* alone would give Fix
C2_Witness ==
    /\ Built
    /\ C2_FirstMatch = 5
    /\ C2_Rules[8].when
    /\ ~C2_Rules[6].when /\ ~C2_Rules[7].when
    /\ ctx.suggested_type = "Feat"

C3_SourcePaths ==
    {changes.files[i].path : i \in {j \in 1..Len(changes.files) : changes.files[j].category = "Source"}}

C3_Candidates == {extract_scope_from_path(path) : path \in C3_SourcePaths}

\* C3: infer_scope returns s iff there is a Source file and every Source file
\* yields the identical candidate s; when some Source file yields no
\* candidate, or two differ, or there is no Source file, it returns none.
C3_ScopeIffUnanimous ==
    Built =>
        ctx.suggested_scope =
            IF C3_SourcePaths # {} /\ Cardinality(C3_Candidates) = 1
               /\ \A c \in C3_Candidates : c.some
            THEN CHOOSE c \in C3_Candidates : TRUE
            ELSE None

C7_ContentFiles ==
    {i \in 1..Len(changes.files) :
        ~changes.files[i].is_binary /\ ~should_skip_content(changes.files[i].path)}

C7_Reproduced(i) ==
    \A n \in 1..Len(Lines(changes.files[i].diff)) :
        \E k \in 1..Len(ctx.truncated_diff) :
            /\ ctx.truncated_diff[k].kind = "line"
            /\ ctx.truncated_diff[k].file = changes.files[i].path
            /\ ctx.truncated_diff[k].n = n
            /\ ctx.truncated_diff[k].len = Len(Lines(changes.files[i].diff)[n]) + 1

C7_Marked ==
    \E k \in 1..Len(ctx.truncated_diff) :
        ctx.truncated_diff[k].kind \in {"exceeded", "truncated", "notshown"}

\* C7: truncation is never silent: when truncated_diff does not reproduce
\* every diff line of every non-binary, non-lock file, it contains a
\* truncation marker.
C7_TruncationNeverSilent ==
    Built => (\A i \in C7_ContentFiles : C7_Reproduced(i)) \/ C7_Marked

\* a file left out whole because its header no longer fits: the only marker is
\* the count of files not shown
C7_Witness ==
    /\ Built
    /\ \E i \in C7_ContentFiles :
          /\ Lines(changes.files[i].diff) # <<>>
          /\ \A k \in 1..Len(ctx.truncated_diff) :
                ctx.truncated_diff[k].file # changes.files[i].path
    /\ \A k \in 1..Len(ctx.truncated_diff) :
          ctx.truncated_diff[k].kind \notin {"exceeded", "truncated"}
    /\ C7_Marked

\* C8: after the "budget exceeded" marker nothing more is emitted except the
\* final count of files not shown.
C8_StopsAfterExceeded ==
    Built =>
        \A k \in 1..Len(ctx.truncated_diff) :
            ctx.truncated_diff[k].kind = "exceeded" =>
                \A m \in (k + 1)..Len(ctx.truncated_diff) :
                    ctx.truncated_diff[m].kind = "notshown"

(***************************************************************************)
(* services/splitter.rs: the commit grouper.  module_files is a HashMap,   *)
(* whose iteration order the program does not control: `order` is the      *)
(* order in which one run iterates its keys.                               *)
(***************************************************************************)
GENERIC_DIRS == {T_src, T_lib, T_services, T_empty}

detect_module(path) ==
    LET parent == ParentName(path)
        stem == FileStem(path)
    IN IF parent.some /\ parent.val \notin GENERIC_DIRS THEN parent.val
       ELSE IF stem.some THEN stem.val ELSE T_unknown

\* StagedChanges::subset: the files whose path is listed, in their order, with
\* the stats recomputed over them
subset(ch, paths) ==
    LET kept == SelectSeq(ch.files, LAMBDA f : \E i \in 1..Len(paths) : paths[i] = f.path)
    IN [files |-> kept,
        stats |-> [files_changed |-> Len(kept),
                   insertions |-> SumSeq(MapSeq(kept, LAMBDA f : f.additions)),
                   deletions |-> SumSeq(MapSeq(kept, LAMBDA f : f.deletions))]]

\* step 1 of analyze: the Source files of each module, in order
source_modules(ch) ==
    LET source == SelectSeq(ch.files, LAMBDA f : f.category = "Source")
        keys == {detect_module(source[i].path) : i \in 1..Len(source)}
    IN [m \in keys |-> SelectSeq(source, LAMBDA f : detect_module(f.path) = m)]

support_of(ch) == SelectSeq(ch.files, LAMBDA f : f.category # "Source")

module_size(files) == SumSeq(MapSeq(files, LAMBDA f : f.additions + f.deletions))

\* Iterator::max_by_key over module_files.iter(): of several maximal
\* entries the last one iterated is returned
largest_module(module_files, order) ==
    LET best == CHOOSE i \in 1..Len(order) :
                    /\ \A j \in 1..Len(order) :
                          module_size(module_files[order[j]]) <= module_size(module_files[order[i]])
                    /\ \A j \in (i + 1)..Len(order) :
                          module_size(module_files[order[j]]) < module_size(module_files[order[i]])
    IN order[best]

\* attach_target without the stem match: every support file to the largest module
attach_target_largestOnly(module_files, largest, file) == largest

\* the module a support file is pushed to
attach_target(module_files, largest, file) ==
    IF file.category = "Test"
    THEN LET stem == IF FileStem(file.path).some THEN FileStem(file.path).val ELSE T_empty
         IN IF stem \in DOMAIN module_files THEN stem ELSE largest
    ELSE largest

\* the for loop of attach_support_files over support_files[i..]
RECURSIVE AttachFrom(_, _, _, _)
AttachFrom(module_files, largest, support_files, i) ==
    IF i > Len(support_files) THEN module_files
    ELSE LET target == attach_target(module_files, largest, support_files[i])
         IN AttachFrom([module_files EXCEPT ![target] = Append(@, support_files[i])],
                       largest, support_files, i + 1)

\* attach_support_files attaching only the Test files
attach_support_files_testsOnly(module_files, support_files, order) ==
    IF order = <<>> THEN module_files
    ELSE AttachFrom(module_files, largest_module(module_files, order),
                    SelectSeq(support_files, LAMBDA f : f.category = "Test"), 1)

attach_support_files(module_files, support_files, order) ==
    IF order = <<>> THEN module_files
    ELSE AttachFrom(module_files, largest_module(module_files, order), support_files, 1)

\* build_groups handing every symbol to the classifier of every group
build_groups_allSymbols(ch, syms, module_files, order) ==
    [k \in 1..Len(order) |->
        LET paths == MapSeq(module_files[order[k]], LAMBDA f : f.path)
            sub_changes == subset(ch, paths)
        IN [files |-> paths,
            commit_type |-> infer_commit_type(sub_changes, syms),
            scope |-> infer_scope(sub_changes)]]

\* step 3 of analyze: one CommitGroup per module, in iteration order
build_groups(ch, syms, module_files, order) ==
    [k \in 1..Len(order) |->
        LET paths == MapSeq(module_files[order[k]], LAMBDA f : f.path)
            sub_changes == subset(ch, paths)
            sub_symbols == SelectSeq(syms, LAMBDA s : \E i \in 1..Len(paths) : paths[i] = s.file)
        IN [files |-> paths,
            commit_type |-> infer_commit_type(sub_changes, sub_symbols),
            scope |-> infer_scope(sub_changes)]]

group_change_size(group, ch) ==
    LET inGroup == SelectSeq(ch.files, LAMBDA f : \E i \in 1..Len(group.files) : group.files[i] = f.path)
    IN SumSeq(MapSeq(inGroup, LAMBDA f : f.additions + f.deletions))

\* all_same comparing the commit types only
all_same_typeOnly(groups) ==
    \A k \in 1..Len(groups) : groups[k].commit_type = groups[1].commit_type

\* step 4 of analyze
all_same(groups) ==
    \A k \in 1..Len(groups) :
        groups[k].commit_type = groups[1].commit_type /\ groups[k].scope = groups[1].scope

\* sort_groups with the comparator a_size.cmp(&b_size): smallest first
sort_groups_ascending(groups, ch) ==
    LET keyed == [k \in 1..Len(groups) |->
                    [key |-> group_change_size(groups[k], ch), val |-> groups[k]]]
    IN MapSeq(StableSort(keyed, FALSE), LAMBDA e : e.val)

sort_groups(groups, ch) ==
    LET keyed == [k \in 1..Len(groups) |->
                    [key |-> group_change_size(groups[k], ch), val |-> groups[k]]]
    IN MapSeq(StableSort(keyed, TRUE), LAMBDA e : e.val)

SingleCommit == [kind |-> "SingleCommit", groups |-> <<>>]
SuggestSplit(groups) == [kind |-> "SuggestSplit", groups |-> groups]

\* CommitSplitter::analyze
analyze(ch, syms, order) ==
    LET module_files == source_modules(ch)
        attached == attach_support_files(module_files, support_of(ch), order)
        groups == build_groups(ch, syms, attached, order)
    IN IF Cardinality(DOMAIN module_files) <= 1 THEN SingleCommit
       ELSE IF Len(groups) >= 2 /\ all_same(groups) THEN SingleCommit
       ELSE SuggestSplit(sort_groups(groups, ch))

\* the orders in which a HashMap with these keys can be iterated
IterationOrders(keys) ==
    {o \in [1..Cardinality(keys) -> keys] : \A i, j \in 1..Cardinality(keys) : i # j => o[i] # o[j]}

(***************************************************************************)
(* Inputs of the grouper.                                                  *)
(***************************************************************************)
MaxSplitFiles == 4

N_llm == <<"l", "l", "m">>
N_x_rs == <<"x", ".", "r", "s">>
N_san_rs == <<"s", "a", "n", ".", "r", "s">>
N_cfg_rs == <<"c", "f", "g", ".", "r", "s">>
N_zz_rs == <<"z", "z", ".", "r", "s">>

SplitCatalog ==
    << FileChange(<<T_src, T_services, N_llm, N_x_rs>>, "Modified", <<>>, 20, 5, "Source", FALSE),
       FileChange(<<T_src, T_services, N_llm, N_b_rs>>, "Modified", <<>>, 1, 8, "Source", FALSE),
       FileChange(<<T_src, T_services, N_san_rs>>, "Modified", <<>>, 5, 2, "Source", FALSE),
       FileChange(<<T_src, N_cfg_rs>>, "Added", <<>>, 5, 2, "Source", FALSE),
       FileChange(<<N_tests, N_san_rs>>, "Modified", <<>>, 30, 0, "Test", FALSE),
       FileChange(<<N_tests, N_zz_rs>>, "Added", <<>>, 2, 0, "Test", FALSE),
       FileChange(<<N_README_md>>, "Modified", <<>>, 5, 2, "Docs", FALSE) >>

Sym_llm_fn ==
    CodeSymbol("Function", <<"n", "e", "w">>, <<T_src, T_services, N_llm, N_x_rs>>, 1, TRUE, TRUE)
Sym_cfg_fn == CodeSymbol("Struct", <<"C">>, <<T_src, N_cfg_rs>>, 1, TRUE, TRUE)

SplitSymbolLists == {<<>>, <<Sym_llm_fn>>, <<Sym_cfg_fn, Sym_llm_fn>>}

SplitChangeSets == {StagedChanges(files) : files \in Picks(SplitCatalog, MaxSplitFiles)}

(***************************************************************************)
(* Specification of the grouper: CommitSplitter::analyze applied once.     *)
(***************************************************************************)
InitSplit ==
    /\ changes \in SplitChangeSets
    /\ symbols \in SplitSymbolLists
    /\ config = [max_diff_lines |-> 500, max_file_lines |-> 100, max_context_chars |-> 24000]
    /\ ctx = NoResult
    /\ Idle

Analyze ==
    /\ split = NoResult
    /\ \E order \in IterationOrders(DOMAIN source_modules(changes)) :
          split' = [result |-> analyze(changes, symbols, order), order |-> order]
    /\ UNCHANGED <<changes, symbols, config, ctx, diff, made, hunks, probe, hit, content, again, flow>>

NextSplit == Analyze

SpecSplit == InitSplit /\ [][NextSplit]_vars

(***************************************************************************)
(* Claims about CommitSplitter::analyze (specification SpecSplit).         *)
(***************************************************************************)
Analyzed == split # NoResult

SplitMade == Analyzed /\ split.result.kind = "SuggestSplit"

Groups == split.result.groups

C4_SourceIndexes == {i \in 1..Len(changes.files) : changes.files[i].category = "Source"}

\* the module key of a Source file, as the claim's source states it: the
\* immediate parent directory's name, or the file's stem when that name is
\* src, lib, services or empty
C4_ModuleKey(path) ==
    IF Len(path) >= 2 /\ path[Len(path) - 1] \notin {T_src, T_lib, T_services, <<>>}
    THEN path[Len(path) - 1]
    ELSE FileStem(path).val

C4_ModuleKeys == {C4_ModuleKey(changes.files[i].path) : i \in C4_SourceIndexes}

\* the groups this run formed, one per module in its iteration order, with the
\* (type, scope) pair the classifier gives each group's files and symbols
C4_Formed ==
    LET attached == attach_support_files(source_modules(changes), support_of(changes), split.order)
    IN [k \in 1..Len(split.order) |->
          LET paths == MapSeq(attached[split.order[k]], LAMBDA f : f.path)
              inGroup(p) == \E i \in 1..Len(paths) : paths[i] = p
              sub == StagedChanges(SelectSeq(changes.files, LAMBDA f : inGroup(f.path)))
              syms == SelectSeq(symbols, LAMBDA s : inGroup(s.file))
          IN <<infer_commit_type(sub, syms), infer_scope(sub)>>]

C4_Informative == \E j, k \in 1..Len(C4_Formed) : C4_Formed[j] # C4_Formed[k]

\* C4: analyze returns a split iff the Source files fall into at least two
\* distinct module keys and the groups do not all have the same (type, scope)
\* pair; a returned split has at least two groups, two of which differ in
\* type or scope.
C4_SplitIffInformative ==
    Analyzed =>
        /\ SplitMade <=> (Cardinality(C4_ModuleKeys) >= 2 /\ C4_Informative)
        /\ SplitMade =>
              /\ Len(Groups) >= 2
              /\ \E j, k \in 1..Len(Groups) :
                    \/ Groups[j].commit_type # Groups[k].commit_type
                    \/ Groups[j].scope # Groups[k].scope

\* two modules whose groups have the same type but different scopes: a split
C4_Witness ==
    /\ SplitMade
    /\ Len(Groups) = 2
    /\ Groups[1].commit_type = Groups[2].commit_type
    /\ Groups[1].scope # Groups[2].scope

C5_PathsOf(k) == {Groups[k].files[i] : i \in 1..Len(Groups[k].files)}

C5_IsSource(path) ==
    \E i \in 1..Len(changes.files) :
        changes.files[i].path = path /\ changes.files[i].category = "Source"

\* C5: the groups of a returned split partition the change set: every file is
\* in exactly one group (once), no group is empty, and every group holds a
\* Source file.
C5_GroupsPartition ==
    SplitMade =>
        /\ \A i \in 1..Len(changes.files) :
              Cardinality({<<k, n>> \in (1..Len(Groups)) \X (1..MaxSplitFiles + 1) :
                              /\ n <= Len(Groups[k].files)
                              /\ Groups[k].files[n] = changes.files[i].path}) = 1
        /\ \A k \in 1..Len(Groups) :
              /\ Groups[k].files # <<>>
              /\ C5_PathsOf(k) \subseteq {changes.files[i].path : i \in 1..Len(changes.files)}
              /\ \E path \in C5_PathsOf(k) : C5_IsSource(path)

\* a split in which a test file and a docs file were attached to groups
C5_Witness ==
    /\ SplitMade
    /\ \E i, j \in 1..Len(changes.files) :
          /\ changes.files[i].category = "Test"
          /\ changes.files[j].category = "Docs"
          /\ \E k, m \in 1..Len(Groups) :
                /\ k # m
                /\ changes.files[i].path \in C5_PathsOf(k)
                /\ changes.files[j].path \in C5_PathsOf(m)

C6_Changed(k) ==
    LET idx == {i \in 1..Len(changes.files) : changes.files[i].path \in C5_PathsOf(k)}
        sizes == [i \in 1..Len(changes.files) |->
                    IF i \in idx THEN changes.files[i].additions + changes.files[i].deletions
                    ELSE 0]
    IN SumSeq(sizes)

\* C6: the groups of a returned split are in non-increasing order of total
\* changed lines (additions + deletions over the group's files).
C6_LargestFirst ==
    SplitMade => \A k \in 1..(Len(Groups) - 1) : C6_Changed(k) >= C6_Changed(k + 1)

\* a split whose first group is strictly larger than its last, although the
\* run iterated the smaller module first
C6_Witness ==
    /\ SplitMade
    /\ C6_Changed(1) > C6_Changed(Len(Groups))
    /\ Groups[1].commit_type # Groups[Len(Groups)].commit_type
    /\ \E p \in C5_PathsOf(Len(Groups)) : C4_ModuleKey(p) = split.order[1]

(***************************************************************************)
(* services/analyzer.rs: the hunk parser.                                  *)
(* HUNK_REGEX is ^@@\s*-(\d+)(?:,(\d+))?\s+\+(\d+)(?:,(\d+))?\s*@@          *)
(***************************************************************************)
DigitChars == {"0", "1", "2", "3", "4", "5", "6", "7", "8", "9"}
SpaceChars == {" ", "\t"}

DigitValue(c) ==
    CASE c = "0" -> 0 [] c = "1" -> 1 [] c = "2" -> 2 [] c = "3" -> 3 [] c = "4" -> 4
      [] c = "5" -> 5 [] c = "6" -> 6 [] c = "7" -> 7 [] c = "8" -> 8 [] c = "9" -> 9

\* usize::MAX on a 64-bit target, 18446744073709551615, as its digits
USIZE_MAX_DIGITS ==
    <<"1", "8", "4", "4", "6", "7", "4", "4", "0", "7", "3", "7", "0", "9", "5", "5",
      "1", "6", "1", "5">>

\* the first position from i on whose character is not in `class` (the end of
\* a greedy run \s* or \d+ starting at i)
RunEnd(line, i, class) ==
    CHOOSE j \in i..(Len(line) + 1) :
        /\ \A k \in i..(j - 1) : line[k] \in class
        /\ j = Len(line) + 1 \/ line[j] \notin class

\* whether a run of digits is a number that fits usize
FitsUsize(digits) ==
    LET first == RunEnd(digits, 1, {"0"})
        significant == SubSeq(digits, first, Len(digits))
    IN \/ Len(significant) < Len(USIZE_MAX_DIGITS)
       \/ /\ Len(significant) = Len(USIZE_MAX_DIGITS)
          /\ \/ significant = USIZE_MAX_DIGITS
             \/ \E i \in 1..Len(significant) :
                   /\ DigitValue(significant[i]) < DigitValue(USIZE_MAX_DIGITS[i])
                   /\ \A j \in 1..(i - 1) : significant[j] = USIZE_MAX_DIGITS[j]

RECURSIVE DecimalValue(_)
DecimalValue(digits) ==
    IF digits = <<>> THEN 0
    ELSE 10 * DecimalValue(SubSeq(digits, 1, Len(digits) - 1)) + DigitValue(digits[Len(digits)])

\* str::parse::<usize>() of a run of ASCII digits: Err (None) on overflow
ParseUsize(digits) == IF FitsUsize(digits) THEN Some(DecimalValue(digits)) ELSE None

At(line, i, c) == i <= Len(line) /\ line[i] = c

\* HUNK_REGEX.captures(line): the four capture groups (a group that did not
\* take part is None), or None when the line does not match
hunk_captures(line) ==
    LET minus == RunEnd(line, 3, SpaceChars)
        d1 == minus + 1
        d1e == RunEnd(line, d1, DigitChars)
        has1 == At(line, d1e, ",") /\ RunEnd(line, d1e + 1, DigitChars) > d1e + 1
        c1e == IF has1 THEN RunEnd(line, d1e + 1, DigitChars) ELSE d1e
        plus == RunEnd(line, c1e, SpaceChars)
        d2 == plus + 1
        d2e == RunEnd(line, d2, DigitChars)
        has2 == At(line, d2e, ",") /\ RunEnd(line, d2e + 1, DigitChars) > d2e + 1
        c2e == IF has2 THEN RunEnd(line, d2e + 1, DigitChars) ELSE d2e
        close == RunEnd(line, c2e, SpaceChars)
    IN IF /\ At(line, 1, "@") /\ At(line, 2, "@")
          /\ At(line, minus, "-")
          /\ d1e > d1
          /\ plus > c1e
          /\ At(line, plus, "+")
          /\ d2e > d2
          /\ At(line, close, "@") /\ At(line, close + 1, "@")
       THEN Some(<< Some(SubSeq(line, d1, d1e - 1)),
                    IF has1 THEN Some(SubSeq(line, d1e + 1, c1e - 1)) ELSE None,
                    Some(SubSeq(line, d2, d2e - 1)),
                    IF has2 THEN Some(SubSeq(line, d2e + 1, c2e - 1)) ELSE None >>)
       ELSE None

\* caps.get(n).map(|m| m.as_str().parse().unwrap_or(1)).unwrap_or(0): the
\* fallback of an omitted count changed
count_or_zero(group) ==
    IF ~group.some THEN 0
    ELSE IF ParseUsize(group.val).some THEN ParseUsize(group.val).val ELSE 1

\* caps.get(n).map(|m| m.as_str().parse().unwrap_or(1)).unwrap_or(1)
count_or_one(group) ==
    IF group.some /\ ParseUsize(group.val).some THEN ParseUsize(group.val).val ELSE 1

parse_hunk_header(line) ==
    LET caps == hunk_captures(line)
        old_start == ParseUsize(caps.val[1].val)
        new_start == ParseUsize(caps.val[3].val)
    IN IF ~caps.some THEN None
       ELSE IF ~old_start.some THEN None
       ELSE IF ~new_start.some THEN None
       ELSE Some([old_start |-> old_start.val,
                  old_count |-> count_or_one(caps.val[2]),
                  new_start |-> new_start.val,
                  new_count |-> count_or_one(caps.val[4])])

\* DiffHunk::parse_from_diff
parse_from_diff(text) ==
    LET parsed == MapSeq(Lines(text), parse_hunk_header)
    IN MapSeq(SelectSeq(parsed, LAMBDA h : h.some), LAMBDA h : h.val)

\* line_start <= hunk_end: the upper bound taken as inclusive
intersects_new_inclusive(hunk, line_start, line_end) ==
    LET hunk_end == hunk.new_start + hunk.new_count
    IN line_start <= hunk_end /\ line_end > hunk.new_start

intersects_new(hunk, line_start, line_end) ==
    LET hunk_end == hunk.new_start + hunk.new_count
    IN line_start < hunk_end /\ line_end > hunk.new_start

intersects_old(hunk, line_start, line_end) ==
    LET hunk_end == hunk.old_start + hunk.old_count
    IN line_start < hunk_end /\ line_end > hunk.old_start

(***************************************************************************)
(* Inputs of the hunk parser: diff texts written line by line, as git      *)
(* writes hunk headers and as a test may write near misses.  Numbers are   *)
(* written as digits, so that a number too large for usize can be written. *)
(***************************************************************************)
MaxLines == 2
MaxLineNo == 15

DigitOf(n) == CHOOSE c \in DigitChars : DigitValue(c) = n

\* the decimal rendering of n (Display for usize)
RECURSIVE Decimal(_)
Decimal(n) == IF n < 10 THEN <<DigitOf(n)>> ELSE Append(Decimal(n \div 10), DigitOf(n % 10))

\* a run of digits without its leading zeros ("0" for a run of zeros)
Significant(digits) ==
    LET first == RunEnd(digits, 1, {"0"})
    IN IF first > Len(digits) THEN <<"0">> ELSE SubSeq(digits, first, Len(digits))

\* 2^64 = usize::MAX + 1, and a number of more digits than usize::MAX has
TooLarge1 == SubSeq(USIZE_MAX_DIGITS, 1, 19) \o <<"6">>
TooLarge2 == Rep("9", 21)

\* "start" or "start,count"
RangeText(start, count) == start \o (IF count.some THEN <<",">> \o count.val ELSE <<>>)

\* a hunk header: "@@" gap1 "-" old gap2 "+" new gap3 "@@" tail
HeaderLine(old_start, old_count, new_start, new_count, gap1, gap2, gap3, tail) ==
    [header |-> TRUE,
     old_start |-> old_start, old_count |-> old_count,
     new_start |-> new_start, new_count |-> new_count,
     text |-> <<"@", "@">> \o gap1 \o <<"-">> \o RangeText(old_start, old_count) \o gap2
              \o <<"+">> \o RangeText(new_start, new_count) \o gap3 \o <<"@", "@">> \o tail]

OtherLine(text) == [header |-> FALSE, text |-> text]

LineCatalog ==
    << HeaderLine(Decimal(10), Some(Decimal(5)), Decimal(12), Some(Decimal(7)),
                  <<" ">>, <<" ">>, <<" ">>, <<>>),
       HeaderLine(Decimal(1), None, Decimal(1), None, <<" ">>, <<" ">>, <<" ">>, <<>>),
       HeaderLine(Decimal(0), Some(Decimal(0)), Decimal(1), Some(Decimal(4)),
                  <<" ">>, <<" ">>, <<" ">>, <<" ", "f", "n">>),
       HeaderLine(<<"0", "0", "7">>, Some(Decimal(3)), Decimal(10), None,
                  <<>>, <<" ", "\t">>, <<>>, <<>>),
       HeaderLine(Decimal(305), None, Decimal(9), Some(Decimal(10)),
                  <<" ", " ">>, <<" ">>, <<" ">>, <<"@", "@">>),
       HeaderLine(TooLarge1, None, Decimal(1), None, <<" ">>, <<" ">>, <<" ">>, <<>>),
       HeaderLine(Decimal(2), Some(Decimal(3)), TooLarge2, Some(Decimal(3)),
                  <<" ">>, <<" ">>, <<" ">>, <<>>),
       HeaderLine(Decimal(4), Some(TooLarge1), Decimal(4), Some(Decimal(2)),
                  <<" ">>, <<" ">>, <<" ">>, <<>>),
       OtherLine(<<>>),
       OtherLine(<<"+", "@", "@", " ", "-", "1", " ", "+", "1", " ", "@", "@">>),
       OtherLine(<<"@", "@", " ", "-", "1", "+", "1", " ", "@", "@">>),
       OtherLine(<<"@", "@", " ", "-", "1", ",", " ", "+", "1", " ", "@", "@">>),
       OtherLine(<<"@", "@", " ", "-", "1", " ", "+", "1", " ", "@">>),
       OtherLine(<<"@", "@", " ", "+", "1", " ", "-", "1", " ", "@", "@">>) >>

\* the lines joined by '\n', with or without a final line ending
DiffText(lines, final) ==
    Concat([i \in 1..Len(lines) |->
              lines[i].text \o (IF i < Len(lines) \/ final THEN <<"\n">> ELSE <<>>)])

Written == {<<>>} \cup Picks(LineCatalog, MaxLines)

Ranges == {r \in (1..MaxLineNo) \X (1..MaxLineNo) : r[1] <= r[2]}

(***************************************************************************)
(* Specification of the hunk parser: parse_from_diff applied to the text,  *)
(* then intersects_new / intersects_old applied to a parsed hunk.          *)
(***************************************************************************)
InitHunk ==
    /\ made \in Written
    /\ \E final \in BOOLEAN : diff = DiffText(made, final)
    /\ hunks = NoResult
    /\ probe = NoResult
    /\ hit = NoResult
    /\ content = NoResult
    /\ again = NoResult
    /\ changes = NoResult
    /\ symbols = <<>>
    /\ config = NoResult
    /\ ctx = NoResult
    /\ split = NoResult
    /\ flow = NoResult

Parse ==
    /\ hunks = NoResult
    /\ hunks' = [list |-> parse_from_diff(diff)]
    /\ UNCHANGED <<changes, symbols, config, ctx, split, diff, made, probe, hit, content, again, flow>>

Intersect ==
    /\ hunks # NoResult
    /\ probe = NoResult
    /\ \E k \in 1..Len(hunks.list), r \in Ranges :
          /\ probe' = [hunk |-> hunks.list[k], line_start |-> r[1], line_end |-> r[2]]
          /\ hit' = [new |-> intersects_new(hunks.list[k], r[1], r[2]),
                     old |-> intersects_old(hunks.list[k], r[1], r[2])]
    /\ UNCHANGED <<changes, symbols, config, ctx, split, diff, made, hunks, content, again, flow>>

NextHunk == Parse \/ Intersect

SpecHunk == InitHunk /\ [][NextHunk]_vars

(***************************************************************************)
(* Claims about the hunk parser (specification SpecHunk).                  *)
(***************************************************************************)
Parsed == hunks # NoResult

\* the written lines that match the hunk-header pattern
C9_Headers == SelectSeq(made, LAMBDA l : l.header)

\* the count a header states: 1 when omitted
C9_CountText(count) == IF count.some THEN Significant(count.val) ELSE <<"1">>

C9_Parsable ==
    SelectSeq(C9_Headers, LAMBDA l : FitsUsize(l.old_start) /\ FitsUsize(l.new_start))

\* the count of a header whose count is omitted or does not fit usize is 1
C9_CountOrOne(count) ==
    IF count.some /\ FitsUsize(count.val) THEN Significant(count.val) ELSE <<"1">>

Probed == hit # NoResult

T_rs == <<"r", "s">>
T_ts == <<"t", "s">>
T_tsx == <<"t", "s", "x">>
T_py == <<"p", "y">>
T_go == <<"g", "o">>
T_js == <<"j", "s">>
T_jsx == <<"j", "s", "x">>
T_anonymous == <<"a", "n", "o", "n", "y", "m", "o", "u", "s">>

\* path.extension(): the part of the file name after its last dot; none
\* without a dot, or when the only dot is the first character
Extension(path) ==
    IF path = <<>> THEN None
    ELSE LET name == path[Len(path)]
             d == LastDot(name)
         IN IF d <= 1 THEN None ELSE Some(SubSeq(name, d + 1, Len(name)))

\* the match on ext in extract_symbols: whether a grammar is registered
has_language(ext) == ext \in {T_rs, T_ts, T_tsx, T_py, T_go, T_js, T_jsx}

\* the match on node.kind() in visit_node_with_hunks
symbol_kind(kind_str) ==
    CASE kind_str \in {"function_item", "function_definition", "function_declaration"} ->
            Some("Function")
      [] kind_str \in {"method_definition", "method_declaration"} -> Some("Method")
      [] kind_str \in {"struct_item", "struct_declaration"} -> Some("Struct")
      [] kind_str \in {"enum_item", "enum_declaration"} -> Some("Enum")
      [] kind_str = "trait_item" -> Some("Trait")
      [] kind_str = "impl_item" -> Some("Impl")
      [] kind_str \in {"class_declaration", "class_definition"} -> Some("Class")
      [] kind_str = "interface_declaration" -> Some("Interface")
      [] kind_str \in {"const_item", "const_declaration"} -> Some("Const")
      [] kind_str \in {"type_alias_declaration", "type_item"} -> Some("Type")
      [] OTHER -> None

\* hunks.iter().any(|h| if is_added { h.intersects_new(..) } else { h.intersects_old(..) })
intersects_any(hunks_, is_added, line_start, line_end) ==
    \E k \in 1..Len(hunks_) :
        IF is_added THEN intersects_new(hunks_[k], line_start, line_end)
        ELSE intersects_old(hunks_[k], line_start, line_end)

\* the symbol pushed for a node of a declaration kind that intersects a hunk
symbol_of(node, kind, file, is_added) ==
    CodeSymbol(kind,
               IF node.name.some THEN node.name.val ELSE T_anonymous,
               file,
               node.start_row + 1,
               node.children # <<>> /\ node.children[1].kind = "visibility_modifier",
               is_added)

\* visit_node_with_hunks without the test against the hunks: every declaration
\* is pushed
RECURSIVE visit_node_with_hunks_all(_, _, _, _)
visit_node_with_hunks_all(siblings, file, hunks_, is_added) ==
    IF siblings = <<>> THEN <<>>
    ELSE LET node == Head(siblings)
             kind == symbol_kind(node.kind)
             own == IF kind.some THEN <<symbol_of(node, kind.val, file, is_added)>> ELSE <<>>
         IN own \o visit_node_with_hunks_all(node.children, file, hunks_, is_added)
                \o visit_node_with_hunks_all(Tail(siblings), file, hunks_, is_added)

\* the loop over the cursor's node and its following siblings; each node
\* before its children, the children before the next sibling
RECURSIVE visit_node_with_hunks(_, _, _, _)
visit_node_with_hunks(siblings, file, hunks_, is_added) ==
    IF siblings = <<>> THEN <<>>
    ELSE LET node == Head(siblings)
             kind == symbol_kind(node.kind)
             line_start == node.start_row + 1
             line_end == node.end_row + 1
             own == IF kind.some /\ intersects_any(hunks_, is_added, line_start, line_end)
                    THEN <<symbol_of(node, kind.val, file, is_added)>>
                    ELSE <<>>
         IN own \o visit_node_with_hunks(node.children, file, hunks_, is_added)
                \o visit_node_with_hunks(Tail(siblings), file, hunks_, is_added)

\* parser.parse(source) and the walk from the root of the tree
extract_changed_symbols_static(file, tree, hunks_, is_added) ==
    visit_node_with_hunks(<<tree>>, file, hunks_, is_added)

extract_for_file_static(change, hunks_, staged_content, head_content) ==
    LET staged == staged_content[change.path]
        head == head_content[change.path]
    IN (IF staged.some
        THEN extract_changed_symbols_static(change.path, staged.val, hunks_, TRUE)
        ELSE <<>>)
       \o (IF head.some
           THEN extract_changed_symbols_static(change.path, head.val, hunks_, FALSE)
           ELSE <<>>)

\* symbols_of_change without the is_binary test
symbols_of_change_binaryParsed(change, staged_content, head_content) ==
    LET ext == Extension(change.path)
        hunks_ == parse_from_diff(change.diff)
    IN IF has_language(IF ext.some THEN ext.val ELSE T_empty)
       THEN extract_for_file_static(change, hunks_, staged_content, head_content)
       ELSE <<>>

\* what extract_symbols adds for one change
symbols_of_change(change, staged_content, head_content) ==
    LET ext == Extension(change.path)
        hunks_ == parse_from_diff(change.diff)
    IN IF change.is_binary THEN <<>>
       ELSE IF has_language(IF ext.some THEN ext.val ELSE T_empty)
            THEN extract_for_file_static(change, hunks_, staged_content, head_content)
            ELSE <<>>

\* AnalyzerService::extract_symbols
extract_symbols(files, staged_content, head_content) ==
    Concat([i \in 1..Len(files) |-> symbols_of_change(files[i], staged_content, head_content)])

(***************************************************************************)
(* Inputs of the symbol extractor: changed files with the hunks of their   *)
(* diff and the trees of their staged and HEAD content.                    *)
(***************************************************************************)
MaxSymFiles == 3

N_run_rs == <<"r", "u", "n", ".", "r", "s">>
N_one_rs == <<"o", "n", "e", ".", "r", "s">>
N_m_rs == <<"m", ".", "r", "s">>
N_blob_rs == <<"b", "l", "o", "b", ".", "r", "s">>
N_notes_md == <<"n", "o", "t", "e", "s", ".", "m", "d">>
N_gone_rs == <<"g", "o", "n", "e", ".", "r", "s">>
N_quiet_rs == <<"q", "u", "i", "e", "t", ".", "r", "s">>
N_web_go == <<"w", "e", "b", ".", "g", "o">>
N_dot_rs == <<".", "r", "s">>

Node(kind, start_row, end_row, name, children) ==
    [kind |-> kind, start_row |-> start_row, end_row |-> end_row, name |-> name,
     children |-> children]

\* a node without children and without a name field, on one row
Leaf(kind, row) == Node(kind, row, row, None, <<>>)

\* Rust: [pub] fn name() { .. } on rows first..last
RustFn(name, first, last, is_pub) ==
    Node("function_item", first, last, Some(name),
         (IF is_pub THEN <<Leaf("visibility_modifier", first)>> ELSE <<>>)
         \o <<Leaf("fn", first), Leaf("identifier", first), Leaf("parameters", first),
              Node("block", first, last, None, <<>>)>>)

\* "pub fn run() {" / "    work();" / "}"
TreeRun ==
    Node("source_file", 0, 3, None, <<RustFn(<<"r", "u", "n">>, 0, 2, TRUE)>>)

\* "pub fn one() {}"
TreeOne ==
    Node("source_file", 0, 1, None, <<RustFn(<<"o", "n", "e">>, 0, 0, TRUE)>>)

\* "struct S;" / "impl S {" / "    pub fn get(&self) {}" / "    fn helper() {" /
\* "        .." / "    }" / "}" / "pub fn late() {}"
TreeStagedM ==
    Node("source_file", 0, 8, None,
         << Node("struct_item", 0, 0, Some(<<"S">>),
                 <<Leaf("struct", 0), Leaf("type_identifier", 0)>>),
            Node("impl_item", 1, 6, None,
                 << Leaf("impl", 1), Leaf("type_identifier", 1),
                    Node("declaration_list", 1, 6, None,
                         << RustFn(<<"g", "e", "t">>, 2, 2, TRUE),
                            RustFn(<<"h", "e", "l", "p", "e", "r">>, 3, 5, FALSE) >>) >>),
            RustFn(<<"l", "a", "t", "e">>, 7, 7, TRUE) >>)

\* "struct S;" / "impl S {" / "    fn helper() {" / "    }" / "}" / "fn old() {}"
TreeHeadM ==
    Node("source_file", 0, 6, None,
         << Node("struct_item", 0, 0, Some(<<"S">>),
                 <<Leaf("struct", 0), Leaf("type_identifier", 0)>>),
            Node("impl_item", 1, 4, None,
                 << Leaf("impl", 1), Leaf("type_identifier", 1),
                    Node("declaration_list", 1, 4, None,
                         <<RustFn(<<"h", "e", "l", "p", "e", "r">>, 2, 3, FALSE)>>) >>),
            RustFn(<<"o", "l", "d">>, 5, 5, FALSE) >>)

\* Go: "func Serve() {" / "    .." / "}"
TreeWeb ==
    Node("source_file", 0, 3, None,
         << Node("function_declaration", 0, 2, Some(<<"S", "e", "r", "v", "e">>),
                 << Leaf("func", 0), Leaf("identifier", 0), Leaf("parameter_list", 0),
                    Node("block", 0, 2, None, <<>>) >>) >>)

\* the header "@@ -old_start,old_count +new_start,new_count @@" of a hunk
HunkLine(h) ==
    HeaderLine(Decimal(h.old_start), Some(Decimal(h.old_count)),
               Decimal(h.new_start), Some(Decimal(h.new_count)),
               <<" ">>, <<" ">>, <<" ">>, <<>>)

Hunk(old_start, old_count, new_start, new_count) ==
    [old_start |-> old_start, old_count |-> old_count,
     new_start |-> new_start, new_count |-> new_count]

\* a changed file: its hunks as written into its diff (each header followed
\* by one changed line), its content in the index and in HEAD, and the new
\* public top-level functions of the staged content as [name, first, last]
\* (lines counted from 1)
SymCase(path, is_binary, hunks_, staged, head, public_functions) ==
    [change |-> FileChange(path, "Modified",
                           DiffText(Concat([k \in 1..Len(hunks_) |->
                                               <<HunkLine(hunks_[k]), OtherLine(<<"+", "x">>)>>])
                                    \o <<OtherLine(<<"+", "p", "u", "b", " ", "f", "n">>)>>,
                                    TRUE),
                           1, 0, "Source", is_binary),
     hunks |-> hunks_, staged |-> staged, head |-> head,
     public_functions |-> public_functions]

PublicFn(name, first, last) == [name |-> name, first |-> first, last |-> last]

SymCatalog ==
    << SymCase(<<T_src, N_run_rs>>, FALSE, <<Hunk(0, 0, 1, 3)>>, Some(TreeRun), None,
               {PublicFn(<<"r", "u", "n">>, 1, 3)}),
       SymCase(<<T_src, N_one_rs>>, FALSE, <<Hunk(0, 0, 1, 1)>>, Some(TreeOne), None,
               {PublicFn(<<"o", "n", "e">>, 1, 1)}),
       SymCase(<<T_src, N_m_rs>>, FALSE, <<Hunk(3, 2, 3, 3), Hunk(7, 0, 7, 2)>>,
               Some(TreeStagedM), Some(TreeHeadM),
               {PublicFn(<<"l", "a", "t", "e">>, 8, 8)}),
       SymCase(<<T_src, N_blob_rs>>, TRUE, <<Hunk(0, 0, 1, 3)>>, Some(TreeRun), None, {}),
       SymCase(<<N_docs, N_notes_md>>, FALSE, <<Hunk(0, 0, 1, 3)>>, Some(TreeRun),
               Some(TreeOne), {}),
       SymCase(<<T_src, N_gone_rs>>, FALSE, <<Hunk(1, 3, 1, 3)>>, None, None, {}),
       SymCase(<<T_src, N_quiet_rs>>, FALSE, <<>>, Some(TreeRun), Some(TreeRun), {}),
       SymCase(<<N_web_go>>, FALSE, <<Hunk(0, 0, 1, 3)>>, Some(TreeWeb), None,
               {PublicFn(<<"S", "e", "r", "v", "e">>, 1, 3)}),
       SymCase(<<N_dot_rs>>, FALSE, <<Hunk(0, 0, 1, 3)>>, Some(TreeRun), None, {}) >>

SymPicks == Picks(SymCatalog, MaxSymFiles)

\* the lookup by path that answers with the content of the picked files and
\* "not present" for every other path
Lookup(cases, side) ==
    [path \in {cases[i].change.path : i \in 1..Len(cases)} |->
        LET i == CHOOSE j \in 1..Len(cases) : cases[j].change.path = path
        IN IF side = "staged" THEN cases[i].staged ELSE cases[i].head]

(***************************************************************************)
(* Specification of the symbol extractor: extract_symbols applied once to  *)
(* the changed files and the two content lookups.                          *)
(***************************************************************************)
InitSym ==
    /\ made \in SymPicks
    /\ changes = StagedChanges(MapSeq(made, LAMBDA c : c.change))
    /\ content = [staged |-> Lookup(made, "staged"), head |-> Lookup(made, "head")]
    /\ symbols = NoResult
    /\ config = NoResult
    /\ ctx = NoResult
    /\ split = NoResult
    /\ diff = <<>>
    /\ hunks = NoResult
    /\ probe = NoResult
    /\ hit = NoResult
    /\ again = NoResult
    /\ flow = NoResult

Extract ==
    /\ symbols = NoResult
    /\ symbols' = [list |-> extract_symbols(changes.files, content.staged, content.head)]
    /\ UNCHANGED <<changes, config, ctx, split, diff, made, hunks, probe, hit, content, again, flow>>

NextSym == Extract

SpecSym == InitSym /\ [][NextSym]_vars

(***************************************************************************)
(* Claims about the symbol extractor (specification SpecSym).              *)
(***************************************************************************)
Extracted == symbols # NoResult

\* the symbols emitted for the file of the i-th change
C11_SymbolsOf(i) ==
    SelectSeq(symbols.list, LAMBDA s : s.file = made[i].change.path)

\* the span first..last lies inside the new-side range of a hunk of the file
C11_Inside(fn, case) ==
    \E k \in 1..Len(case.hunks) :
        /\ case.hunks[k].new_start <= fn.first
        /\ fn.last < case.hunks[k].new_start + case.hunks[k].new_count

\* C11: a new public top-level function of a staged file of a supported
\* language whose whole line span lies inside the new-side range of a hunk
\* yields exactly one symbol for it, with its name, kind Function,
\* public = true, added = true and line = its first line.
C11_PublicFunctionFound ==
    Extracted =>
        \A i \in 1..Len(made) : \A fn \in made[i].public_functions :
            C11_Inside(fn, made[i]) =>
                LET found == SelectSeq(C11_SymbolsOf(i),
                                       LAMBDA s : s.name = fn.name /\ s.is_added)
                IN /\ Len(found) = 1
                   /\ found[1].kind = "Function"
                   /\ found[1].is_public
                   /\ found[1].line = fn.first

\* the extensions with a registered grammar
C12_Registered == {T_rs, T_ts, T_tsx, T_py, T_go, T_js, T_jsx}

\* the file is binary, has no registered grammar, or is present neither in
\* the index nor in HEAD
C12_Silent(case) ==
    \/ case.change.is_binary
    \/ ~Extension(case.change.path).some
    \/ Extension(case.change.path).val \notin C12_Registered
    \/ ~case.staged.some /\ ~case.head.some

\* C12: extract_symbols emits no symbol for a file that is binary, has an
\* extension without a registered grammar, or whose content lookups both say
\* "not present", whatever its diff and content; and the symbols emitted for
\* the other files are those emitted without such files in the change set.
C12_SilentFilesEmitNothing ==
    Extracted =>
        /\ \A i \in 1..Len(made) : C12_Silent(made[i]) => C11_SymbolsOf(i) = <<>>
        /\ symbols.list =
              extract_symbols(MapSeq(SelectSeq(made, LAMBDA c : ~C12_Silent(c)),
                                     LAMBDA c : c.change),
                              content.staged, content.head)

\* a binary file with hunks and a parsable function in its content, between
\* two files that yield symbols
C12_Witness ==
    /\ Extracted
    /\ Len(made) = 3
    /\ made[2].change.is_binary
    /\ made[2].staged.some /\ made[2].hunks # <<>>
    /\ C11_SymbolsOf(1) # <<>>
    /\ C11_SymbolsOf(3) # <<>>
    /\ C11_SymbolsOf(2) = <<>>

\* the nodes of the trees rooted at the given siblings
RECURSIVE C13_Nodes(_)
C13_Nodes(siblings) ==
    IF siblings = <<>> THEN {}
    ELSE {Head(siblings)} \cup C13_Nodes(Head(siblings).children) \cup C13_Nodes(Tail(siblings))

\* the symbol is a declaration of the content of its polarity whose span
\* intersects a hunk of the file on that polarity's side
C13_Justified(s, case) ==
    LET tree == IF s.is_added THEN case.staged ELSE case.head
    IN /\ tree.some
       /\ \E node \in C13_Nodes(<<tree.val>>) :
             /\ node.start_row + 1 = s.line
             /\ symbol_kind(node.kind) = Some(s.kind)
             /\ \E k \in 1..Len(case.hunks) :
                   LET start == IF s.is_added THEN case.hunks[k].new_start
                                ELSE case.hunks[k].old_start
                       count == IF s.is_added THEN case.hunks[k].new_count
                                ELSE case.hunks[k].old_count
                   IN node.start_row + 1 < start + count /\ node.end_row + 1 > start

\* C13: every emitted symbol is justified by a hunk of its own file: one with
\* added = true by the staged content and intersects_new, one with
\* added = false by the HEAD content and intersects_old; a file whose diff has
\* no hunk header yields no symbol.
C13_SymbolsJustifiedByOwnHunks ==
    Extracted =>
        /\ \A n \in 1..Len(symbols.list) :
              \E i \in 1..Len(made) :
                  /\ made[i].change.path = symbols.list[n].file
                  /\ C13_Justified(symbols.list[n], made[i])
        /\ \A i \in 1..Len(made) : made[i].hunks = <<>> => C11_SymbolsOf(i) = <<>>

\* a file without hunks whose content has a function, beside a file with
\* hunks for which a removed and an added symbol are emitted and a declaration
\* outside the hunks is not
C13_Witness ==
    /\ Extracted
    /\ \E i, j \in 1..Len(made) :
          /\ made[i].hunks = <<>> /\ made[i].staged = Some(TreeRun)
          /\ made[j].staged = Some(TreeStagedM)
          /\ \E n, m \in 1..Len(C11_SymbolsOf(j)) :
                ~C11_SymbolsOf(j)[n].is_added /\ C11_SymbolsOf(j)[m].is_added
          /\ \A n \in 1..Len(C11_SymbolsOf(j)) : C11_SymbolsOf(j)[n].kind # "Struct"

(***************************************************************************)
(* Inputs of infer_scope: change sets of files whose paths place the       *)
(* container markers at different depths.                                  *)
(***************************************************************************)
MaxScopeFiles == 2

N_tools == <<"t", "o", "o", "l", "s">>

ScopeFile(path, category) == FileChange(path, "Modified", SmallDiff, 1, 1, category, FALSE)

ScopeCatalog ==
    << ScopeFile(<<T_src, N_b_rs>>, "Source"),
       ScopeFile(<<T_src, N_main_rs>>, "Source"),
       ScopeFile(<<T_src, N_foo, N_b_rs>>, "Source"),
       ScopeFile(<<T_src, N_foo, N_c_rs>>, "Source"),
       ScopeFile(<<T_src, N_foo, N_bar, N_b_rs>>, "Source"),
       ScopeFile(<<T_src, N_foo, N_bar, N_c_rs>>, "Source"),
       ScopeFile(<<T_src, N_bar, N_c_rs>>, "Source"),
       ScopeFile(<<T_packages, N_foo, T_src, N_bar, N_x_rs>>, "Source"),
       ScopeFile(<<T_crates, N_bar, T_src, N_main_rs>>, "Source"),
       ScopeFile(<<N_tools, N_b_rs>>, "Source"),
       ScopeFile(<<N_tools, N_c_rs>>, "Source"),
       ScopeFile(<<N_x_rs>>, "Source"),
       ScopeFile(<<N_docs, N_g_md>>, "Docs") >>

ScopeChangeSets == {StagedChanges(files) : files \in Picks(ScopeCatalog, MaxScopeFiles)}

InitScope ==
    /\ changes \in ScopeChangeSets
    /\ symbols = <<>>
    /\ config = [max_diff_lines |-> 500, max_file_lines |-> 100, max_context_chars |-> 24000]
    /\ ctx = NoResult
    /\ diff = <<>> /\ made = <<>> /\ hunks = NoResult /\ probe = NoResult /\ hit = NoResult
    /\ Idle

\* ContextBuilder::infer_scope, the suggested_scope field of build
InferScope ==
    /\ ctx = NoResult
    /\ ctx' = [suggested_scope |-> infer_scope(changes)]
    /\ UNCHANGED <<changes, symbols, config, split, diff, made, hunks, probe, hit, content, again, flow>>

NextScope == InferScope

SpecScope == InitScope /\ [][NextScope]_vars

(***************************************************************************)
(* Claims about infer_scope (specification SpecScope).                     *)
(***************************************************************************)
Inferred == ctx # NoResult

ScopeSources == SelectSeq(changes.files, LAMBDA f : f.category = "Source")

\* the directory of a path: the path without its last component
ScopeDir(path) == SubSeq(path, 1, Len(path) - 1)

\* the positions of a path where a src/lib marker is followed by a component
\* without a dot other than main, lib and mod
ScopeSrcHits(path) ==
    {i \in 1..(Len(path) - 1) :
        /\ path[i] \in {T_src, T_lib}
        /\ ~Contains(path[i + 1], ".")
        /\ path[i + 1] \notin {T_main, T_lib, T_mod}}

\* the positions where a packages/crates/apps marker is followed by a
\* component without a dot
ScopePkgHits(path) ==
    {i \in 1..(Len(path) - 1) :
        /\ path[i] \in {T_packages, T_crates, T_apps}
        /\ ~Contains(path[i + 1], ".")}

ScopeFirst(hits) == CHOOSE i \in hits : \A j \in hits : i <= j

\* the parent directory name, unless there is none or it is src, lib, "." or ""
ScopeParent(path) ==
    IF Len(path) >= 2 /\ path[Len(path) - 1] \notin {T_src, T_lib, T_dot, T_empty}
    THEN Some(path[Len(path) - 1])
    ELSE None

\* the candidate of a path: the component after the first marker of either
\* family, in path order, that yields one; without one, the parent name
ScopeCandidate(path) ==
    LET hits == ScopeSrcHits(path) \cup ScopePkgHits(path)
    IN IF hits # {} THEN Some(path[ScopeFirst(hits) + 1]) ELSE ScopeParent(path)

C15_ByPrecedence(path) ==
    IF ScopeSrcHits(path) # {} THEN Some(path[ScopeFirst(ScopeSrcHits(path)) + 1])
    ELSE IF ScopePkgHits(path) # {} THEN Some(path[ScopeFirst(ScopePkgHits(path)) + 1])
         ELSE ScopeParent(path)

\* C15: the scope candidate of a path follows a strict precedence: the
\* component after a src/lib marker when one yields, only otherwise the
\* component after a packages/crates/apps marker, only otherwise the parent
\* directory name unless it is empty or a generic marker.  Checked on change
\* sets of one Source file, whose suggested scope is the candidate.
C15_StrictPrecedence ==
    (Inferred /\ Len(changes.files) = 1 /\ Len(ScopeSources) = 1) =>
        ctx.suggested_scope = C15_ByPrecedence(ScopeSources[1].path)

(***************************************************************************)
(* Claims about the rendering of lock files by build (specification Spec). *)
(***************************************************************************)
\* the changed files whose file name is on the list
C16_LockFiles ==
    {i \in 1..Len(changes.files) :
        /\ FileName(changes.files[i].path).some
        /\ FileName(changes.files[i].path).val \in SKIP_CONTENT_FILES}

C16_PiecesOf(path, kinds) ==
    {k \in 1..Len(ctx.truncated_diff) :
        ctx.truncated_diff[k].file = path /\ ctx.truncated_diff[k].kind \in kinds}

\* the header of the file is followed at once by the placeholder
C16_Placeholder(path) ==
    \E k \in C16_PiecesOf(path, {"header"}) :
        /\ k + 1 \in C16_PiecesOf(path, {"lock"})
        /\ C16_PiecesOf(path, {"header"}) = {k}

C16_NoRawLine(path) == C16_PiecesOf(path, {"line", "exceeded", "truncated"}) = {}

MaxRepeatFiles == 2

RepeatChangeSets == {StagedChanges(files) : files \in Picks(Catalog, MaxRepeatFiles)}

InitRepeat ==
    /\ changes \in RepeatChangeSets
    /\ symbols \in SymbolLists
    /\ config \in Configs
    /\ ctx = NoResult
    /\ diff = <<>> /\ made = <<>> /\ hunks = NoResult /\ probe = NoResult /\ hit = NoResult
    /\ Idle

\* the second call, made after the first has returned
BuildAgain ==
    /\ ctx # NoResult
    /\ again = NoResult
    /\ again' = build(changes, symbols, config)
    /\ UNCHANGED <<changes, symbols, config, ctx, split, diff, made, hunks, probe, hit, content, flow>>

NextRepeat == Build \/ BuildAgain

SpecRepeat == InitRepeat /\ [][NextRepeat]_vars

BuiltTwice == ctx # NoResult /\ again # NoResult

MaxTwiceFiles == 3

TwiceChangeSets == {StagedChanges(files) : files \in Picks(SplitCatalog, MaxTwiceFiles)}

InitTwice ==
    /\ changes \in TwiceChangeSets
    /\ symbols \in SplitSymbolLists
    /\ config = [max_diff_lines |-> 500, max_file_lines |-> 100, max_context_chars |-> 24000]
    /\ ctx = NoResult
    /\ diff = <<>> /\ made = <<>> /\ hunks = NoResult /\ probe = NoResult /\ hit = NoResult
    /\ Idle

\* the second call, made after the first has returned
AnalyzeAgain ==
    /\ split # NoResult
    /\ again = NoResult
    /\ \E order \in IterationOrders(DOMAIN source_modules(changes)) :
          again' = [result |-> analyze(changes, symbols, order), order |-> order]
    /\ UNCHANGED <<changes, symbols, config, ctx, split, diff, made, hunks, probe, hit, content, flow>>

NextTwice == Analyze \/ AnalyzeAgain

SpecTwice == InitTwice /\ [][NextTwice]_vars

AnalyzedTwice == split # NoResult /\ again # NoResult

\* C18: two invocations of analyze on the same change set and symbols return
\* the same outcome, with the same files in each group and the same order of
\* the groups, also when two modules have equal total additions+deletions.
C18_AnalyzeDeterministic == AnalyzedTwice => again.result = split.result

(***************************************************************************)
(* build with context sizes whose symbol share runs from zero up to more   *)
(* than the symbol lists need: max_context_chars from 6000 on, where       *)
(* `remaining` is a little under or over MIN_DIFF_BUDGET.                  *)
(***************************************************************************)
MaxContextSpan == 400

ShareChangeSets == {StagedChanges(files) : files \in Picks(Catalog, 1)}

ShareConfigs ==
    { [max_diff_lines |-> 500, max_file_lines |-> 100, max_context_chars |-> 6000 + k] :
        k \in 0..MaxContextSpan }

InitShare ==
    /\ changes \in ShareChangeSets
    /\ symbols \in SymbolLists
    /\ config \in ShareConfigs
    /\ ctx = NoResult
    /\ diff = <<>> /\ made = <<>> /\ hunks = NoResult /\ probe = NoResult /\ hit = NoResult
    /\ Idle

SpecShare == InitShare /\ [][Next]_vars

(***************************************************************************)
(* Claims about the symbol blocks of build (specification SpecShare).      *)
(***************************************************************************)
\* what remains of `remaining` after the diff share
SymbolShare ==
    LET used == SYSTEM_PROMPT_RESERVE + TextLen(ctx.change_summary) + TextLen(ctx.file_breakdown)
        remaining == Max(config.max_context_chars - used, 0)
        diff_share == Max(remaining - remaining \div 5, MIN_DIFF_BUDGET)
    IN Max(remaining - diff_share, 0)

\* C19: in build the added-symbols block and the removed-symbols block are
\* each at most half the symbol share long, for every symbol list and budget,
\* a symbol share of zero included.
C19_BlocksWithinHalfShare ==
    Built =>
        /\ TextLen(ctx.symbols_added) <= SymbolShare \div 2
        /\ TextLen(ctx.symbols_removed) <= SymbolShare \div 2

SymbolBlock(added) == IF added THEN ctx.symbols_added ELSE ctx.symbols_removed

\* the symbols of one polarity, in input order
OfPolarity(added) == SelectSeq(symbols, LAMBDA s : s.is_added = added)

RenderedIn(added) == SelectSeq(SymbolBlock(added), LAMBDA p : p.kind = "symbol")

MarkersIn(added) == SelectSeq(SymbolBlock(added), LAMBDA p : p.kind = "more")

\* the rendered symbols are the first symbols of the polarity, in input order
C20_Prefix(added) ==
    /\ Len(RenderedIn(added)) <= Len(OfPolarity(added))
    /\ \A k \in 1..Len(RenderedIn(added)) :
          /\ RenderedIn(added)[k].n = k
          /\ RenderedIn(added)[k].file = OfPolarity(added)[k].file
          /\ RenderedIn(added)[k].len = SymbolLen(OfPolarity(added)[k])

\* the length of the first k symbols rendered one per line
C20_Width(added, k) ==
    SumSeq([i \in 1..k |-> SymbolLen(OfPolarity(added)[i])]) + (IF k > 0 THEN k - 1 ELSE 0)

\* the marker is there iff some symbol of the polarity was not rendered, it
\* closes the block, and its count is the number of symbols not rendered
C20_Marker(added) ==
    LET left == Len(OfPolarity(added)) - Len(RenderedIn(added))
    IN IF left > 0
       THEN /\ Len(MarkersIn(added)) = 1
            /\ SymbolBlock(added)[Len(SymbolBlock(added))].kind = "more"
            /\ MarkersIn(added)[1].n = left
            /\ MarkersIn(added)[1].len = 9 + DecLen(left) + 13
       ELSE MarkersIn(added) = <<>>

\* C20 as stated: in each symbol block the rendered symbols are a prefix, in
\* input order, of the symbols of the polarity; rendering stops at the first
\* symbol whose line would overflow the block's budget (every symbol before
\* it is rendered); the marker is present iff a symbol was not rendered, with
\* the exact count.
C20_StopsAtFirstOverflow ==
    Built =>
        \A added \in BOOLEAN :
            LET count == Len(RenderedIn(added))
            IN /\ C20_Prefix(added)
               /\ C20_Width(added, count) <= SymbolShare \div 2
               /\ count < Len(OfPolarity(added)) =>
                     C20_Width(added, count + 1) > SymbolShare \div 2
               /\ C20_Marker(added)

\* The same with the fit test of format_symbols_with_budget: a symbol is left
\* out when the text rendered so far, its line and one separator character
\* together exceed the budget, the separator being counted for the first
\* symbol too.
C20_StopsAtFirstMisfit ==
    Built =>
        \A added \in BOOLEAN :
            LET count == Len(RenderedIn(added))
            IN /\ C20_Prefix(added)
               /\ \A k \in 1..count :
                     C20_Width(added, k - 1) + SymbolLen(OfPolarity(added)[k]) + 1
                        <= SymbolShare \div 2
               /\ count < Len(OfPolarity(added)) =>
                     C20_Width(added, count) + SymbolLen(OfPolarity(added)[count + 1]) + 1
                        > SymbolShare \div 2
               /\ C20_Marker(added)

(***************************************************************************)
(* Claims about the per-file markers of truncate_diff_adaptive             *)
(* (specification Spec).                                                   *)
(***************************************************************************)
DiffPieces(path, kinds) ==
    {k \in 1..Len(ctx.truncated_diff) :
        ctx.truncated_diff[k].file = path /\ ctx.truncated_diff[k].kind \in kinds}

\* the content files whose header was emitted
EmittedWithContent == {i \in C7_ContentFiles : DiffPieces(changes.files[i].path, {"header"}) # {}}

\* the per-file line budget of file i
LineBudgetOf(i) ==
    Min(calculate_file_budget(Cardinality(C7_ContentFiles), changes.files[i].category,
                              config.max_diff_lines),
        config.max_file_lines)

\* C21: for each file emitted with diff content, the "N lines truncated"
\* marker is appended for that file exactly when its diff has more lines than
\* its per-file line budget and the character budget was not exhausted while
\* emitting it; N is the diff's line count minus the per-file line budget.
C21_TruncatedIffRoomRemaining ==
    Built =>
        \A i \in EmittedWithContent :
            LET path == changes.files[i].path
                count == Len(Lines(changes.files[i].diff))
            IN /\ DiffPieces(path, {"truncated"}) # {}
                    <=> (count > LineBudgetOf(i) /\ DiffPieces(path, {"exceeded"}) = {})
               /\ \A k \in DiffPieces(path, {"truncated"}) :
                     ctx.truncated_diff[k].n = count - LineBudgetOf(i)

(***************************************************************************)
(* Claims about the order of the files in the texts of build               *)
(* (specification Spec).                                                   *)
(***************************************************************************)
\* the place of a category in the order Source, Test, Config, Docs, Build, Other
C22_Rank(category) ==
    CHOOSE r \in 1..6 :
        <<"Source", "Test", "Config", "Docs", "Build", "Other">>[r] = category

\* the position in the change set of the file with this path
C22_Index(path) == CHOOSE i \in 1..Len(changes.files) : changes.files[i].path = path

\* a sequence of paths is in priority order, ties in the order of the change set
C22_Ordered(paths) ==
    \A k, l \in 1..Len(paths) :
        k < l =>
            LET a == C22_Index(paths[k])
                b == C22_Index(paths[l])
                ra == C22_Rank(changes.files[a].category)
                rb == C22_Rank(changes.files[b].category)
            IN ra < rb \/ (ra = rb /\ a < b)

C22_PathsOf(text, kind) == MapSeq(SelectSeq(text, LAMBDA p : p.kind = kind), LAMBDA p : p.file)

\* every piece that belongs to a file lies under the header of that file
C22_UnderOwnHeader ==
    \A k \in 1..Len(ctx.truncated_diff) :
        ctx.truncated_diff[k].kind \in {"line", "lock", "exceeded", "truncated"} =>
            \E h \in 1..(k - 1) :
                /\ ctx.truncated_diff[h].kind = "header"
                /\ ctx.truncated_diff[h].file = ctx.truncated_diff[k].file
                /\ \A j \in (h + 1)..(k - 1) : ctx.truncated_diff[j].kind # "header"

C22_BinaryPaths ==
    {changes.files[i].path : i \in {j \in 1..Len(changes.files) : changes.files[j].is_binary}}

\* C22: in truncated_diff and in file_breakdown the file entries appear in the
\* category order Source, Test, Config, Docs, Build, Other; files of one
\* category keep their relative order from the change set; a binary file
\* never gets a header, placeholder, breakdown entry or diff line.
C22_PriorityOrder ==
    Built =>
        /\ C22_Ordered(C22_PathsOf(ctx.file_breakdown, "entry"))
        /\ C22_Ordered(C22_PathsOf(ctx.truncated_diff, "header"))
        /\ C22_UnderOwnHeader
        /\ \A k \in 1..Len(ctx.truncated_diff) : ctx.truncated_diff[k].file \notin C22_BinaryPaths
        /\ \A k \in 1..Len(ctx.file_breakdown) : ctx.file_breakdown[k].file \notin C22_BinaryPaths

\* a change set that starts with a binary file and names a Test file before a
\* Source file: both texts show the Source file first and only these two
C22_Witness ==
    /\ Built
    /\ Len(changes.files) = 3
    /\ changes.files[1].is_binary
    /\ changes.files[2].category = "Test"
    /\ changes.files[3].category = "Source"
    /\ C22_PathsOf(ctx.truncated_diff, "header") = <<changes.files[3].path, changes.files[2].path>>
    /\ C22_PathsOf(ctx.file_breakdown, "entry") = <<changes.files[3].path, changes.files[2].path>>
    /\ \E k \in 1..Len(ctx.truncated_diff) :
          ctx.truncated_diff[k].kind = "line" /\ ctx.truncated_diff[k].file = changes.files[2].path

(***************************************************************************)
(* Claims about the groups of CommitSplitter::analyze (specification       *)
(* SpecSplit).                                                             *)
(***************************************************************************)
\* total additions+deletions of the Source files of a module
C23_SourceSize(key) ==
    SumSeq([i \in 1..Len(changes.files) |->
              IF i \in C4_SourceIndexes /\ C4_ModuleKey(changes.files[i].path) = key
              THEN changes.files[i].additions + changes.files[i].deletions
              ELSE 0])

C23_Largest == {key \in C4_ModuleKeys : \A other \in C4_ModuleKeys : C23_SourceSize(other) <= C23_SourceSize(key)}

\* the module of a group: the key of its Source files
C23_ModuleOf(k) == {C4_ModuleKey(path) : path \in {p \in C5_PathsOf(k) : C5_IsSource(p)}}

\* the module the claim sends a non-Source file to, `largest` being a largest module
C23_Target(file, largest) ==
    IF file.category = "Test" /\ FileStem(file.path).some
       /\ FileStem(file.path).val \in C4_ModuleKeys
    THEN FileStem(file.path).val
    ELSE largest

\* C23: a Test file is attached to the module whose key equals the file's
\* stem when there is one, and otherwise to the largest module; a file of any
\* other non-Source category is attached to the largest module, the one with
\* the largest sum of additions+deletions over its Source files; no
\* attachment creates a module.
C23_AttachedToStemOrLargest ==
    SplitMade =>
        /\ Len(Groups) = Cardinality(C4_ModuleKeys)
        /\ \A k \in 1..Len(Groups) : Cardinality(C23_ModuleOf(k)) = 1
        /\ \E largest \in C23_Largest :
              \A i \in 1..Len(changes.files) :
                  i \notin C4_SourceIndexes =>
                      \E k \in 1..Len(Groups) :
                          /\ changes.files[i].path \in C5_PathsOf(k)
                          /\ C23_ModuleOf(k) = {C23_Target(changes.files[i], largest)}

\* a Test file attached to the module of its stem, which is not the largest,
\* while another non-Source file went to the largest module
C23_Witness ==
    /\ SplitMade
    /\ \E i, j \in 1..Len(changes.files), k, m \in 1..Len(Groups) :
          /\ changes.files[i].category = "Test"
          /\ changes.files[i].path \in C5_PathsOf(k)
          /\ C23_ModuleOf(k) = {FileStem(changes.files[i].path).val}
          /\ C23_ModuleOf(k) \cap C23_Largest = {}
          /\ j \notin C4_SourceIndexes
          /\ changes.files[j].path \in C5_PathsOf(m)
          /\ C23_ModuleOf(m) \subseteq C23_Largest

\* the files of the change set that belong to group k, in original order,
\* with the statistics counted over them
C24_Restricted(k) ==
    LET kept == SelectSeq(changes.files, LAMBDA f : f.path \in C5_PathsOf(k))
    IN [files |-> kept,
        stats |-> [files_changed |-> Len(kept),
                   insertions |-> SumSeq([i \in 1..Len(kept) |-> kept[i].additions]),
                   deletions |-> SumSeq([i \in 1..Len(kept) |-> kept[i].deletions])]]

C24_SymbolsOf(k) == SelectSeq(symbols, LAMBDA s : s.file \in C5_PathsOf(k))

\* C24: the type and scope of each group of a split are what infer_commit_type
\* and infer_scope return for the change set restricted to the group's files
\* (original order, statistics recomputed over those files) and the symbols
\* whose file is in the group; the subset for an empty path list is empty
\* with zero statistics.
C24_GroupClassifiedAlone ==
    /\ SplitMade =>
          \A k \in 1..Len(Groups) :
              /\ Groups[k].commit_type = infer_commit_type(C24_Restricted(k), C24_SymbolsOf(k))
              /\ Groups[k].scope = infer_scope(C24_Restricted(k))
              /\ subset(changes, Groups[k].files) = C24_Restricted(k)
    /\ Analyzed =>
          subset(changes, <<>>) =
              [files |-> <<>>, stats |-> [files_changed |-> 0, insertions |-> 0, deletions |-> 0]]

\* a split with a group whose type differs from the type of the whole change
\* set with all symbols, and whose files are not contiguous in the change set
C24_Witness ==
    /\ SplitMade
    /\ symbols # <<>>
    /\ \E k \in 1..Len(Groups) :
          /\ Groups[k].commit_type # infer_commit_type(changes, symbols)
          /\ C24_SymbolsOf(k) # symbols
          /\ Len(Groups[k].files) >= 2
          /\ \E a, b, c \in 1..Len(changes.files) :
                /\ a < b /\ b < c
                /\ changes.files[a].path \in C5_PathsOf(k)
                /\ changes.files[b].path \notin C5_PathsOf(k)
                /\ changes.files[c].path \in C5_PathsOf(k)

(***************************************************************************)
(* app.rs: App::run_split_flow, one action per awaited call or dialog.     *)
(* The index is the set of staged paths, the history the list of commits   *)
(* made.  `calls` records the index- and history-mutating git calls in the *)
(* order they were made.                                                   *)
(***************************************************************************)
\* git.unstage_all(): nothing stays staged
unstage_all(index) == {}

\* git.stage_files(files): the listed paths are staged
stage_files(index, files) == index \cup {files[i] : i \in 1..Len(files)}

\* git commit -m message: the staged paths become a commit, the index is clean
commit(history, index, message) == Append(history, [message |-> message, files |-> index])

\* the tuple pushed to commit_messages for a group
message_entry(message, group) == [message |-> message, files |-> group.files]

\* the files staged for the i-th commit, always the files of the i-th entry
files_to_stage_first(commit_messages, i) == commit_messages[1].files

\* the files staged for the i-th commit
files_to_stage(commit_messages, i) == commit_messages[i].files

\* the step after the overview with the dry-run test left out
after_overview_always(dry_run) == "confirm"

\* the step after the overview: a dry run stops there
after_overview(dry_run) == IF dry_run THEN "done" ELSE "confirm"

\* the flow ends with a result
Ended(result) == [flow EXCEPT !.pc = "done", !.result = result]

MaxFlowGroups == 3

FlowGroup(files) == [files |-> files, commit_type |-> "Feat", scope |-> None]

FlowGroupCatalog ==
    << FlowGroup(<<<<T_src, N_foo, N_b_rs>>, <<N_tests, N_t_rs>>>>),
       FlowGroup(<<<<T_src, N_bar, N_c_rs>>>>),
       FlowGroup(<<<<T_src, N_main_rs>>>>) >>

\* the group lists of SuggestSplit: at least two groups
FlowGroupLists == {g \in Picks(FlowGroupCatalog, MaxFlowGroups) : Len(g) >= 2}

\* the sanitized messages a group can get
FlowMessages == {"feat: a", "fix: b"}

StagedPaths(groups) == UNION {{groups[k].files[i] : i \in 1..Len(groups[k].files)} : k \in 1..Len(groups)}

InitFlow ==
    /\ made \in FlowGroupLists
    /\ \E dry_run \in BOOLEAN :
          flow = [pc |-> "overlap", result |-> "running", dry_run |-> dry_run,
                  overlap |-> "unchecked",
                  commit_messages |-> <<>>, i |-> 1, confirmed |-> FALSE,
                  index |-> StagedPaths(made), history |-> <<>>, calls |-> <<>>]
    /\ changes = NoResult /\ symbols = <<>> /\ config = NoResult /\ ctx = NoResult
    /\ split = NoResult /\ content = NoResult /\ again = NoResult
    /\ diff = <<>> /\ hunks = NoResult /\ probe = NoResult /\ hit = NoResult

FlowUnchanged ==
    UNCHANGED <<changes, symbols, config, ctx, split, diff, made, hunks, probe, hit, content, again>>

\* git.has_unstaged_overlap().await? and the test of its result
CheckOverlap ==
    /\ flow.pc = "overlap"
    /\ \E outcome \in {"Git", "overlap", "none"} :
          flow' = CASE outcome = "Git" -> Ended("Git")
                    [] outcome = "overlap" -> [Ended("SplitAborted") EXCEPT !.overlap = "overlap"]
                    [] outcome = "none" -> [flow EXCEPT !.pc = "connect", !.overlap = "none"]
    /\ FlowUnchanged

\* llm::create_provider(&self.config)? and provider.verify().await?
Connect ==
    /\ flow.pc = "connect"
    /\ \E ok \in BOOLEAN :
          flow' = IF ok
                  THEN [flow EXCEPT !.pc = IF Len(made) >= 1 THEN "generate" ELSE "overview"]
                  ELSE Ended("Provider")
    /\ FlowUnchanged

\* one round of the loop over the groups: the cancellation test, generate,
\* the test for an empty response, sanitize, the push
GenerateMessage ==
    /\ flow.pc = "generate"
    /\ \E outcome \in {"Cancelled", "Provider", "Empty", "InvalidCommitMessage", "ok"} :
          \E message \in FlowMessages :
              flow' = CASE outcome = "Cancelled" -> Ended("Cancelled")
                        [] outcome = "Provider" -> Ended("Provider")
                        [] outcome = "Empty" -> Ended("Provider")
                        [] outcome = "InvalidCommitMessage" -> Ended("InvalidCommitMessage")
                        [] outcome = "ok" ->
                             [flow EXCEPT
                                 !.commit_messages = Append(@, message_entry(message, made[flow.i])),
                                 !.i = @ + 1,
                                 !.pc = IF flow.i = Len(made) THEN "overview" ELSE "generate"]
    /\ FlowUnchanged

\* display_split_overview and the dry-run test
Overview ==
    /\ flow.pc = "overview"
    /\ flow' = IF after_overview(flow.dry_run) = "done"
               THEN Ended("Ok")
               ELSE [flow EXCEPT !.pc = "confirm", !.i = 1]
    /\ FlowUnchanged

\* Confirm::new()...interact()? and the test of the answer
ConfirmCommits ==
    /\ flow.pc = "confirm"
    /\ \E answer \in {"Dialog", "no", "yes"} :
          flow' = CASE answer = "Dialog" -> Ended("Dialog")
                    [] answer = "no" -> Ended("Cancelled")
                    [] answer = "yes" ->
                         IF flow.commit_messages = <<>> THEN [Ended("Ok") EXCEPT !.confirmed = TRUE]
                         ELSE [flow EXCEPT !.pc = "unstage", !.confirmed = TRUE]
    /\ FlowUnchanged

\* git.unstage_all().await?
UnstageAll ==
    /\ flow.pc = "unstage"
    /\ \E ok \in BOOLEAN :
          flow' = IF ok
                  THEN [flow EXCEPT !.index = unstage_all(flow.index),
                                    !.calls = Append(@, [op |-> "unstage_all", i |-> flow.i]),
                                    !.pc = "stage"]
                  ELSE Ended("Git")
    /\ FlowUnchanged

\* git.stage_files(files).await?
StageFiles ==
    /\ flow.pc = "stage"
    /\ \E ok \in BOOLEAN :
          flow' = IF ok
                  THEN [flow EXCEPT
                          !.index = stage_files(flow.index, files_to_stage(flow.commit_messages, flow.i)),
                          !.calls = Append(@, [op |-> "stage_files", i |-> flow.i]),
                          !.pc = "commit"]
                  ELSE Ended("Git")
    /\ FlowUnchanged

\* git.commit(message).await? and the end of the round
Commit ==
    /\ flow.pc = "commit"
    /\ \E ok \in BOOLEAN :
          flow' = IF ok
                  THEN [flow EXCEPT
                          !.history = commit(flow.history, flow.index,
                                             flow.commit_messages[flow.i].message),
                          !.index = {},
                          !.calls = Append(@, [op |-> "commit", i |-> flow.i]),
                          !.i = @ + 1,
                          !.pc = IF flow.i = Len(flow.commit_messages) THEN "done" ELSE "unstage",
                          !.result = IF flow.i = Len(flow.commit_messages) THEN "Ok" ELSE @]
                  ELSE Ended("Git")
    /\ FlowUnchanged

NextFlow ==
    \/ CheckOverlap
    \/ Connect
    \/ GenerateMessage
    \/ Overview
    \/ ConfirmCommits
    \/ UnstageAll
    \/ StageFiles
    \/ Commit

SpecFlow == InitFlow /\ [][NextFlow]_vars

(***************************************************************************)
(* Claims about App::run_split_flow (specification SpecFlow).              *)
(***************************************************************************)
FlowDone == flow # NoResult /\ flow.pc = "done"

GroupPaths(k) == {made[k].files[i] : i \in 1..Len(made[k].files)}

\* the n-th mutating git call of a flow that commits group after group
C25_Expected(n) ==
    [op |-> <<"unstage_all", "stage_files", "commit">>[((n - 1) % 3) + 1],
     i |-> ((n - 1) \div 3) + 1]

\* C25: after the confirmation the commits are made one per group in the
\* order of the group list: unstage everything, stage exactly the group's
\* files, commit with the group's message, and group k's commit is made
\* before anything of group k+1 is staged; when all git calls succeed there
\* are as many commits as groups and commit k holds exactly group k's files.
C25_OneCommitPerGroupInOrder ==
    /\ \A n \in 1..Len(flow.calls) : flow.calls[n] = C25_Expected(n)
    /\ flow.pc = "commit" => flow.index = GroupPaths(flow.i)
    /\ Len(flow.history) <= Len(made)
    /\ \A k \in 1..Len(flow.history) :
          /\ flow.history[k].files = GroupPaths(k)
          /\ flow.history[k].message = flow.commit_messages[k].message
    /\ (FlowDone /\ flow.result = "Ok" /\ flow.confirmed) =>
          /\ Len(flow.history) = Len(made)
          /\ Len(flow.calls) = 3 * Len(made)
          /\ flow.index = {}

\* three groups committed, the second of them with two files and another message
C25_Witness ==
    /\ FlowDone /\ flow.result = "Ok" /\ flow.confirmed
    /\ Len(flow.history) = 3
    /\ Cardinality(flow.history[2].files) = 2
    /\ flow.history[1].message # flow.history[2].message

\* C27: no unstage-all, stage or commit is made unless no staged file has
\* unstaged changes, a message was generated and sanitized for every group,
\* dry-run is off and the user confirmed; a flow that ends with SplitAborted,
\* a provider error, an empty response, an invalid message, a cancellation,
\* a declined confirmation or a dry run leaves index and history as they were.
C27_NoMutationBeforeConfirmation ==
    /\ flow.calls # <<>> =>
          /\ flow.overlap = "none"
          /\ Len(flow.commit_messages) = Len(made)
          /\ \A k \in 1..Len(made) : flow.commit_messages[k].files = made[k].files
          /\ ~flow.dry_run
          /\ flow.confirmed
    /\ (FlowDone /\ (flow.result \in {"SplitAborted", "Provider", "InvalidCommitMessage",
                                        "Cancelled", "Dialog"}
                     \/ flow.dry_run)) =>
          /\ flow.calls = <<>>
          /\ flow.index = StagedPaths(made)
          /\ flow.history = <<>>

\* a flow that generated every message and ended at the declined confirmation
C27_Witness ==
    /\ FlowDone
    /\ flow.result = "Cancelled"
    /\ ~flow.dry_run
    /\ Len(flow.commit_messages) = Len(made)
    /\ flow.index = StagedPaths(made)
    /\ flow.history = <<>>

(***************************************************************************)
(* services/safety.rs and app.rs: App::generate_commit up to the first     *)
(* request to the provider, one action per step of the function.           *)
(***************************************************************************)
\* text contains sub as a substring
ContainsText(text, sub) ==
    \E i \in 0..(Len(text) - Len(sub)) : SubSeq(text, i + 1, i + Len(sub)) = sub

StartsWith(text, prefix) == Len(text) >= Len(prefix) /\ SubSeq(text, 1, Len(prefix)) = prefix

\* path.display(): the components joined by '/'
RECURSIVE PathText(_)
PathText(path) ==
    IF path = <<>> THEN <<>>
    ELSE IF Len(path) = 1 THEN path[1]
    ELSE path[1] \o <<"/">> \o PathText(Tail(path))

UpperOrDigit ==
    {"A", "B", "C", "D", "E", "F", "G", "H", "I", "J", "K", "L", "M", "N", "O", "P", "Q", "R",
     "S", "T", "U", "V", "W", "X", "Y", "Z", "0", "1", "2", "3", "4", "5", "6", "7", "8", "9"}

AWS_KEY_TAIL == 16

\* the "AWS Key" entry of SECRET_PATTERNS, AKIA[0-9A-Z]{16}, as is_match
aws_key_is_match(line) ==
    \E i \in 1..(Len(line) - (3 + AWS_KEY_TAIL)) :
        /\ SubSeq(line, i, i + 3) = <<"A", "K", "I", "A">>
        /\ \A j \in (i + 4)..(i + 3 + AWS_KEY_TAIL) : line[j] \in UpperOrDigit

\* the matches pushed for one file: one per added line that matches
secrets_of_file(file) ==
    LET lines == Lines(file.diff)
        hits == {n \in 1..Len(lines) :
                    /\ StartsWith(lines[n], <<"+">>)
                    /\ ~StartsWith(lines[n], <<"+", "+", "+">>)
                    /\ aws_key_is_match(lines[n])}
        \* the hits in line order
        Nth(k) == CHOOSE n \in hits : Cardinality({h \in hits : h < n}) = k - 1
    IN IF file.is_binary THEN <<>>
       ELSE [k \in 1..Cardinality(hits) |->
                [pattern_name |-> "AWS Key", file |-> file.path, line |-> Nth(k)]]

scan_for_secrets(ch) == Concat([i \in 1..Len(ch.files) |-> secrets_of_file(ch.files[i])])

check_for_conflicts(ch) ==
    \E i \in 1..Len(ch.files) :
        /\ ~ContainsText(PathText(ch.files[i].path), <<"t", "e", "s", "t">>)
        /\ ~ContainsText(PathText(ch.files[i].path), <<"d", "o", "c">>)
        /\ ~ContainsText(PathText(ch.files[i].path), <<"e", "x", "a", "m", "p", "l", "e">>)
        /\ \/ ContainsText(ch.files[i].diff, <<"<", "<", "<", "<", "<", "<", "<">>)
           \/ ContainsText(ch.files[i].diff, <<">", ">", ">", ">", ">", ">", ">">>)

\* the test that ends generate_commit with SecretsDetected, refusing only
\* for the provider Anthropic
must_refuse_anthropicOnly(secrets, allow_secrets, provider) ==
    secrets # <<>> /\ ~allow_secrets /\ provider = "Anthropic"

\* the test that ends generate_commit with SecretsDetected
must_refuse(secrets, allow_secrets, provider) ==
    secrets # <<>> /\ ~allow_secrets /\ provider # "Ollama"

MaxGenFiles == 2

KeyAdded ==
    <<"@", "@", " ", "-", "1", " ", "+", "1", ",", "2", " ", "@", "@",
      "\n", "+", "i", "d", " ", "=", " ", "A", "K", "I", "A", "0", "1",
      "2", "3", "4", "5", "6", "7", "8", "9", "A", "B", "C", "D", "E", "F",
      "\n", "+", "x", "\n">>

KeyRemoved ==
    <<"@", "@", " ", "-", "1", ",", "2", " ", "+", "1", " ", "@", "@",
      "\n", "-", "i", "d", " ", "=", " ", "A", "K", "I", "A", "0", "1",
      "2", "3", "4", "5", "6", "7", "8", "9", "A", "B", "C", "D", "E", "F",
      "\n", " ", "x", "\n">>

KeyAfterPlusPlus ==
    <<"@", "@", " ", "-", "1", " ", "+", "1", ",", "2", " ", "@", "@",
      "\n", "+", "+", "+", "A", "K", "I", "A", "0", "1", "2", "3", "4",
      "5", "6", "7", "8", "9", "A", "B", "C", "D", "E", "F", "\n">>

KeyInConflict ==
    <<"@", "@", " ", "-", "1", " ", "+", "1", ",", "3", " ", "@", "@",
      "\n", "+", "<", "<", "<", "<", "<", "<", "<", " ", "H", "E", "A",
      "D", "\n", "+", "A", "K", "I", "A", "0", "1", "2", "3", "4", "5",
      "6", "7", "8", "9", "A", "B", "C", "D", "E", "F", "\n">>

KeyTooShort ==
    <<"@", "@", " ", "-", "1", " ", "+", "1", " ", "@", "@", "\n", "+",
      "i", "d", " ", "=", " ", "A", "K", "I", "A", "0", "1", "2", "3", "4",
      "5", "6", "7", "8", "9", "A", "B", "C", "D", "E", "\n">>

N_key_rs == <<"k", "e", "y", ".", "r", "s">>
N_env_rs == <<"e", "n", "v", ".", "r", "s">>
N_old_rs == <<"o", "l", "d", ".", "r", "s">>

GenCatalog ==
    << FileChange(<<T_src, N_key_rs>>, "Modified", KeyAdded, 2, 0, "Source", FALSE),
       FileChange(<<T_src, N_old_rs>>, "Modified", KeyRemoved, 0, 1, "Source", FALSE),
       FileChange(<<T_src, N_env_rs>>, "Modified", KeyAfterPlusPlus, 1, 0, "Source", FALSE),
       FileChange(<<T_src, N_cfg_rs>>, "Modified", KeyInConflict, 2, 0, "Source", FALSE),
       FileChange(<<T_src, N_foo, N_b_rs>>, "Added", KeyTooShort, 1, 0, "Source", FALSE),
       FileChange(<<N_logo_png>>, "Added", KeyAdded, 0, 0, "Other", TRUE),
       FileChange(<<T_src, N_main_rs>>, "Modified", SmallDiff, 1, 1, "Source", FALSE) >>

GenChangeSets == {StagedChanges(files) : files \in Picks(GenCatalog, MaxGenFiles)}

Providers == {"Ollama", "OpenAI", "Anthropic"}

InitGen ==
    /\ changes \in GenChangeSets
    /\ config = [max_diff_lines |-> 500, max_file_lines |-> 100, max_context_chars |-> 24000]
    /\ \E allow_secrets \in BOOLEAN, provider \in Providers, may_split \in BOOLEAN :
          flow = [pc |-> "discover", result |-> "running",
                  allow_secrets |-> allow_secrets, provider |-> provider,
                  may_split |-> may_split, scanned |-> FALSE, secrets |-> <<>>,
                  provider_created |-> FALSE, split_flow |-> FALSE, sent |-> <<>>]
    /\ symbols = NoResult /\ ctx = NoResult /\ made = <<>>
    /\ split = NoResult /\ content = NoResult /\ again = NoResult
    /\ diff = <<>> /\ hunks = NoResult /\ probe = NoResult /\ hit = NoResult

\* the cancellation test, GitService::discover()? and get_staged_changes()?
Discover ==
    /\ flow.pc = "discover"
    /\ \E outcome \in {"Cancelled", "NotAGitRepo", "Git", "ok"} :
          flow' = IF outcome = "ok" THEN [flow EXCEPT !.pc = "safety"] ELSE Ended(outcome)
    /\ UNCHANGED <<changes, symbols, config, ctx, split, diff, made, hunks, probe, hit, content, again>>

\* step 2: check_for_conflicts, scan_for_secrets, the test of the findings
\* and the cancellation test after it
SafetyChecks ==
    /\ flow.pc = "safety"
    /\ \E cancelled \in BOOLEAN :
          flow' =
              IF check_for_conflicts(changes) THEN Ended("MergeConflicts")
              ELSE LET secrets == scan_for_secrets(changes)
                       seen == [flow EXCEPT !.scanned = TRUE, !.secrets = secrets]
                   IN IF must_refuse(secrets, flow.allow_secrets, flow.provider)
                      THEN [seen EXCEPT !.pc = "done", !.result = "SecretsDetected"]
                      ELSE IF cancelled
                           THEN [seen EXCEPT !.pc = "done", !.result = "Cancelled"]
                           ELSE [seen EXCEPT !.pc = "symbols"]
    /\ UNCHANGED <<changes, symbols, config, ctx, split, diff, made, hunks, probe, hit, content, again>>

\* step 3: AnalyzerService::new()?, the content lookups and extract_symbols;
\* the contents are not part of this model, no symbol is found
PrepareSymbols ==
    /\ flow.pc = "symbols"
    /\ \E ok \in BOOLEAN :
          /\ flow' = IF ok THEN [flow EXCEPT !.pc = "split"] ELSE Ended("Git")
          /\ symbols' = IF ok THEN <<>> ELSE symbols
    /\ UNCHANGED <<changes, config, ctx, split, diff, made, hunks, probe, hit, content, again>>

\* step 3.5: the split detection, its dialog and the call of run_split_flow
SplitDetection ==
    /\ flow.pc = "split"
    /\ \/ /\ ~flow.may_split
          /\ flow' = [flow EXCEPT !.pc = "context"]
          /\ split' = split
       \/ /\ flow.may_split
          /\ \E order \in IterationOrders(DOMAIN source_modules(changes)),
                answer \in {"Dialog", "yes", "no"} :
                LET suggestion == analyze(changes, symbols, order)
                IN /\ split' = [result |-> suggestion, order |-> order]
                   /\ flow' =
                        IF suggestion.kind # "SuggestSplit" THEN [flow EXCEPT !.pc = "context"]
                        ELSE CASE answer = "Dialog" -> Ended("Dialog")
                               [] answer = "yes" ->
                                    [flow EXCEPT !.pc = "done", !.result = "run_split_flow",
                                                 !.split_flow = TRUE]
                               [] answer = "no" -> [flow EXCEPT !.pc = "context"]
    /\ UNCHANGED <<changes, symbols, config, ctx, diff, made, hunks, probe, hit, content, again>>

\* step 4: ContextBuilder::build and the cancellation test after it
BuildContext ==
    /\ flow.pc = "context"
    /\ ctx' = build(changes, symbols, config)
    /\ \E cancelled \in BOOLEAN :
          flow' = IF cancelled THEN Ended("Cancelled") ELSE [flow EXCEPT !.pc = "provider"]
    /\ UNCHANGED <<changes, symbols, config, split, diff, made, hunks, probe, hit, content, again>>

\* step 5: llm::create_provider(&self.config)? and provider.verify().await?
CreateProvider ==
    /\ flow.pc = "provider"
    /\ \E outcome \in {"Config", "Provider", "ok"} :
          flow' = CASE outcome = "Config" -> Ended("Config")
                    [] outcome = "Provider" -> [Ended("Provider") EXCEPT !.provider_created = TRUE]
                    [] outcome = "ok" -> [flow EXCEPT !.pc = "generate", !.provider_created = TRUE]
    /\ UNCHANGED <<changes, symbols, config, ctx, split, diff, made, hunks, probe, hit, content, again>>

\* the first provider.generate(&prompt, ...): the prompt made of the context
\* goes to the configured provider; what follows (sanitizing, selection,
\* confirmation, commit) sends nothing more
RequestMessage ==
    /\ flow.pc = "generate"
    /\ \E outcome \in {"Cancelled", "Provider", "Ok"} :
          flow' = [Ended(outcome) EXCEPT
                      !.sent = Append(@, [provider |-> flow.provider, prompt |-> ctx])]
    /\ UNCHANGED <<changes, symbols, config, ctx, split, diff, made, hunks, probe, hit, content, again>>

NextGen ==
    \/ Discover
    \/ SafetyChecks
    \/ PrepareSymbols
    \/ SplitDetection
    \/ BuildContext
    \/ CreateProvider
    \/ RequestMessage

SpecGen == InitGen /\ [][NextGen]_vars

(***************************************************************************)
(* Claims about App::generate_commit (specification SpecGen).              *)
(***************************************************************************)
\* the diff went, or is about to go, to a provider: a context was built, a
\* provider was created or contacted, or the split flow, which does both,
\* was entered
C28_Exposed ==
    ctx # NoResult \/ flow.provider_created \/ flow.sent # <<>> \/ flow.split_flow

\* a key stands in an added line of a non-binary file
C28_KeyInAddedLine ==
    \E i \in 1..Len(changes.files) :
        /\ ~changes.files[i].is_binary
        /\ \E n \in 1..Len(Lines(changes.files[i].diff)) :
              LET line == Lines(changes.files[i].diff)[n]
              IN /\ line # <<>> /\ line[1] = "+"
                 /\ ~(Len(line) >= 3 /\ line[2] = "+" /\ line[3] = "+")
                 /\ \E k \in 1..(Len(line) - 19) :
                       /\ <<line[k], line[k + 1], line[k + 2], line[k + 3]>> = <<"A", "K", "I", "A">>
                       /\ \A j \in 4..19 : line[k + j] \in UpperOrDigit

\* C28: when the scan finds a secret pattern in an added line of the staged
\* diff and --allow-secrets is not set, generate_commit returns
\* SecretsDetected before a context is built and before a provider is created
\* or contacted, unless the provider is Ollama; hence a diff with a detected
\* secret never goes to OpenAI or Anthropic without --allow-secrets.
C28_SecretsStopBeforeProvider ==
    /\ (flow.scanned /\ flow.secrets # <<>> /\ ~flow.allow_secrets /\ flow.provider # "Ollama") =>
          /\ flow.pc = "done" /\ flow.result = "SecretsDetected"
          /\ ~C28_Exposed
    /\ (flow.scanned /\ C28_KeyInAddedLine) <=> (flow.scanned /\ flow.secrets # <<>>)
    /\ (C28_Exposed /\ flow.provider \in {"OpenAI", "Anthropic"} /\ ~flow.allow_secrets) =>
          ~C28_KeyInAddedLine

\* a key in an added line, the provider OpenAI: the flow ended with
\* SecretsDetected and nothing was built or sent
C28_Witness ==
    /\ flow.pc = "done" /\ flow.result = "SecretsDetected"
    /\ flow.provider = "OpenAI"
    /\ C28_KeyInAddedLine
    /\ Len(changes.files) = 2
    /\ ~C28_Exposed

(***************************************************************************)
(* Claims about the budgets of truncate_diff_adaptive (specification Spec). *)
(***************************************************************************)
\* the diff content lines in truncated_diff, over all files
C26_ContentLines == {k \in 1..Len(ctx.truncated_diff) : ctx.truncated_diff[k].kind = "line"}

\* C26: the number of diff content lines emitted into truncated_diff, summed
\* over all files, never exceeds the configured max_diff_lines.
C26_TotalLinesWithinMaxDiffLines ==
    Built => Cardinality(C26_ContentLines) <= config.max_diff_lines

\* the character budget build hands to truncate_diff_adaptive
C29_CharBudget ==
    LET other == SYSTEM_PROMPT_RESERVE + TextLen(ctx.change_summary) + TextLen(ctx.file_breakdown)
                 + TextLen(ctx.symbols_added) + TextLen(ctx.symbols_removed)
    IN IF config.max_context_chars > other THEN config.max_context_chars - other ELSE 0

\* the length of the output after its k-th piece was appended
C29_LengthAfter(k) == TextLen(SubSeq(ctx.truncated_diff, 1, k))

C29_Checked == {"header", "lock", "line"}

C29_Markers == {"exceeded", "truncated", "notshown"}

\* the markers at the end of the output, after the last header, placeholder
\* or content line
C29_TrailingMarkers ==
    {k \in 1..Len(ctx.truncated_diff) :
        \A j \in k..Len(ctx.truncated_diff) : ctx.truncated_diff[j].kind \in C29_Markers}

\* C29: right after a file header, a lock-file placeholder or a diff content
\* line is appended the output is no longer than the character budget; only
\* the three truncation markers take the output beyond the budget, so the
\* overshoot is at most the length of the markers that end the output.
C29_OnlyMarkersOvershoot ==
    Built =>
        /\ \A k \in 1..Len(ctx.truncated_diff) :
              /\ ctx.truncated_diff[k].kind \in C29_Checked \cup C29_Markers
              /\ ctx.truncated_diff[k].kind \in C29_Checked =>
                    C29_LengthAfter(k) <= C29_CharBudget
        /\ TextLen(ctx.truncated_diff) - C29_CharBudget
              <= SumSeq([k \in 1..Cardinality(C29_TrailingMarkers) |->
                            ctx.truncated_diff[Len(ctx.truncated_diff) - k + 1].len])

\* content lines were emitted up to the budget and the markers that follow
\* take the output beyond it
C29_Witness ==
    /\ Built
    /\ \E k \in 1..Len(ctx.truncated_diff) : ctx.truncated_diff[k].kind = "line"
    /\ \E k \in 1..Len(ctx.truncated_diff) : ctx.truncated_diff[k].kind = "exceeded"
    /\ TextLen(ctx.truncated_diff) > C29_CharBudget

(***************************************************************************)
(* services/context.rs: format_symbols_with_budget and                     *)
(* truncate_diff_adaptive run step by step, one action per iteration of    *)
(* the loop over the files, recording the argument of every call of        *)
(* calculate_file_budget and the operands of every usize subtraction.  A   *)
(* division by zero, or a subtraction below zero, ends the run "panicked". *)
(***************************************************************************)
\* content_files of truncate_diff_adaptive taking the Source files only
content_files_sourceOnly(files) ==
    SelectSeq(files, LAMBDA f : ~f.is_binary /\ f.category = "Source")

\* content_files of truncate_diff_adaptive
content_files(files) ==
    SelectSeq(files, LAMBDA f : ~f.is_binary /\ ~should_skip_content(f.path))

MaxTruncFiles == 2

TruncChangeSets == {StagedChanges(files) : files \in Picks(Catalog, MaxTruncFiles)}

\* symbols, the polarity asked for and the character budget of one call of
\* format_symbols_with_budget
TruncSymbolCalls ==
    { [syms |-> <<>>, added |-> TRUE, char_budget |-> 215],
      [syms |-> <<Sym_new_enum, Sym_old_fn>>, added |-> TRUE, char_budget |-> 215],
      [syms |-> <<Sym_priv_fn, Sym_new_enum, Sym_new_fn, Sym_old_fn>>, added |-> TRUE,
       char_budget |-> 40],
      [syms |-> <<Sym_priv_fn, Sym_new_enum, Sym_new_fn, Sym_old_fn>>, added |-> FALSE,
       char_budget |-> 0] }

TruncCharBudgets == {0, 75, 120, 24000}

InitTrunc ==
    /\ changes \in TruncChangeSets
    /\ config \in {[max_diff_lines |-> l[1], max_file_lines |-> l[2], max_context_chars |-> 24000] :
                      l \in {<<500, 100>>, <<10, 10>>}}
    /\ \E call \in TruncSymbolCalls, char_budget \in TruncCharBudgets :
          /\ symbols = call.syms
          /\ flow = [pc |-> "symbols", result |-> "running", added |-> call.added,
                     symbol_budget |-> call.char_budget, char_budget |-> char_budget,
                     k |-> 1, output |-> <<>>, files_included |-> 0,
                     calls |-> <<>>, subtractions |-> <<>>]
    /\ ctx = NoResult /\ made = <<>>
    /\ split = NoResult /\ content = NoResult /\ again = NoResult
    /\ diff = <<>> /\ hunks = NoResult /\ probe = NoResult /\ hit = NoResult

TruncUnchanged ==
    UNCHANGED <<changes, symbols, config, ctx, split, diff, made, hunks, probe, hit, content, again>>

Panicked == [flow EXCEPT !.pc = "done", !.result = "panicked"]

\* format_symbols_with_budget, up to remaining = filtered.len() - count
FormatSymbols ==
    /\ flow.pc = "symbols"
    /\ LET filtered == SelectSeq(symbols, LAMBDA s : s.is_added = flow.added)
           output == RenderSymbols(filtered, 1, <<>>, flow.symbol_budget)
           count == Count(output, LAMBDA p : p.kind = "symbol")
           noted == [flow EXCEPT !.subtractions =
                                    Append(@, [from |-> Len(filtered), take |-> count])]
       IN flow' = IF filtered = <<>> THEN [flow EXCEPT !.pc = "file"]
                  ELSE IF count > Len(filtered) THEN [noted EXCEPT !.pc = "done", !.result = "panicked"]
                  ELSE [noted EXCEPT !.pc = "file"]
    /\ TruncUnchanged

TruncFile == files_by_priority(changes)[flow.k]

TruncHeader == 5 + PathLen(TruncFile.path) + 5

MoreFiles == flow.pc = "file" /\ flow.k <= Len(changes.files)

\* if file.is_binary { continue; }
SkipBinary ==
    /\ MoreFiles
    /\ TruncFile.is_binary
    /\ flow' = [flow EXCEPT !.k = @ + 1]
    /\ TruncUnchanged

\* the two tests of the character budget that break out of the loop
StopAtBudget ==
    /\ MoreFiles
    /\ ~TruncFile.is_binary
    /\ \/ TextLen(flow.output) >= flow.char_budget
       \/ TextLen(flow.output) + TruncHeader + 50 > flow.char_budget
    /\ flow' = [flow EXCEPT !.pc = "skipped"]
    /\ TruncUnchanged

FileFits ==
    /\ MoreFiles
    /\ ~TruncFile.is_binary
    /\ TextLen(flow.output) < flow.char_budget
    /\ TextLen(flow.output) + TruncHeader + 50 <= flow.char_budget

\* the header and the placeholder of a lock file
EmitLockFile ==
    /\ FileFits
    /\ should_skip_content(TruncFile.path)
    /\ flow' = [flow EXCEPT !.k = @ + 1, !.files_included = @ + 1,
                            !.output = @ \o <<Piece("header", TruncFile.path, 0, TruncHeader),
                                              Piece("lock", TruncFile.path, 0, 30)>>]
    /\ TruncUnchanged

\* the header, the call of calculate_file_budget, the content lines and the
\* markers of one file
EmitContentFile ==
    /\ FileFits
    /\ ~should_skip_content(TruncFile.path)
    /\ LET file_count == Len(content_files(files_by_priority(changes)))
           called == [flow EXCEPT !.calls = Append(@, file_count)]
           withHeader == Append(flow.output, Piece("header", TruncFile.path, 0, TruncHeader))
           file_line_budget ==
               Min(calculate_file_budget(file_count, TruncFile.category, config.max_diff_lines),
                   config.max_file_lines)
           lines == Lines(TruncFile.diff)
           take == Min(Len(lines), file_line_budget)
           emitted == EmitLines(withHeader, TruncFile.path, lines, 1, take, flow.char_budget)
           marked == IF Len(lines) > take
                     THEN Append(emitted,
                              Piece("truncated", TruncFile.path, Len(lines) - take,
                                    5 + DecLen(Len(lines) - take) + 18))
                     ELSE emitted
       IN flow' = IF file_count = 0
                  THEN [called EXCEPT !.pc = "done", !.result = "panicked"]
                  ELSE [called EXCEPT !.k = @ + 1, !.files_included = @ + 1, !.output = marked]
    /\ TruncUnchanged

\* the loop ran over every file
LoopEnd ==
    /\ flow.pc = "file"
    /\ flow.k > Len(changes.files)
    /\ flow' = [flow EXCEPT !.pc = "skipped"]
    /\ TruncUnchanged

\* skipped = total_files - files_included and the marker of the files not shown
ReportSkipped ==
    /\ flow.pc = "skipped"
    /\ LET total_files == Len(changes.files)
           skipped == total_files - flow.files_included
           noted == [flow EXCEPT !.subtractions =
                                    Append(@, [from |-> total_files, take |-> flow.files_included])]
       IN flow' = IF flow.files_included > total_files
                  THEN [noted EXCEPT !.pc = "done", !.result = "panicked"]
                  ELSE [noted EXCEPT
                          !.pc = "done", !.result = "returned",
                          !.output = IF skipped > 0
                                     THEN Append(@, Piece("notshown", <<>>, skipped,
                                                          6 + DecLen(skipped) + 32))
                                     ELSE @]
    /\ TruncUnchanged

NextTrunc ==
    \/ FormatSymbols
    \/ SkipBinary
    \/ StopAtBudget
    \/ EmitLockFile
    \/ EmitContentFile
    \/ LoopEnd
    \/ ReportSkipped

SpecTrunc == InitTrunc /\ [][NextTrunc]_vars

(***************************************************************************)
(* Claims about the arithmetic of the allocator (specification SpecTrunc). *)
(***************************************************************************)
\* the run over the loop gives the text truncate_diff_adaptive gives at once
TruncAgrees ==
    (flow.pc = "done" /\ flow.result = "returned") =>
        flow.output = truncate_diff_adaptive(changes, config, flow.char_budget)

\* C30: calculate_file_budget is only ever called with a file count of at
\* least 1, so max_diff_lines / file_count never divides by zero, and the
\* subtractions total_files - files_included and filtered.len() - count never
\* go below zero, for every change set, those of binary or lock files only
\* included.
C30_NoZeroDivisionNoUnderflow ==
    /\ flow.result # "panicked"
    /\ \A c \in 1..Len(flow.calls) : flow.calls[c] >= 1
    /\ \A s \in 1..Len(flow.subtractions) : flow.subtractions[s].take <= flow.subtractions[s].from

\* a binary file beside a test file: the budget was computed for one content
\* file, and both subtractions were made
C30_Witness ==
    /\ flow.pc = "done" /\ flow.result = "returned"
    /\ \E i \in 1..Len(changes.files) : changes.files[i].is_binary
    /\ flow.calls = <<1>>
    /\ Len(flow.subtractions) = 2

====
